---- MODULE Spec2Model ----
(***************************************************************************)
(* Model of the prediction-round state machine and the stats ledger        *)
(* (betting_system.py), the monitor loop and its per-event dispatch        *)
(* (monitoring.py) and the swap decoder and classifier                     *)
(* (transaction_utils.py).                                                 *)
(*                                                                         *)
(* The program runs on one asyncio event loop: code between two awaits is  *)
(* one atomic step, and every await (bot.send_message, asyncio.sleep) is a *)
(* point where other tasks run.  Each action below is one such step.       *)
(*                                                                         *)
(* Specifications: Spec (round machine), SpecEvents (dispatch of logs),    *)
(* SpecStats (stats ledger across midnight), SpecClassify (one log through *)
(* the decoder, the classifier and the dispatch), SpecMonitor (the polling *)
(* loop and its block cursor), SpecControl (the /startmonitor and          *)
(* /stopmonitor commands and the monitor tasks they start and cancel),     *)
(* SpecPrices (the price cache of price_utils.py and the classifier that   *)
(* reads it), SpecLeaderboard (get_daily_leaderboard on stored stats),     *)
(* SpecBuyOnly (the buy-only dispatch and its round handler).              *)
(***************************************************************************)
EXTENDS Integers, Sequences, FiniteSets, TLC

\* ------------------------------------------------------------------ bounds
MaxPrice == 2        \* tick prices fed directly are 1..MaxPrice
MaxEthPrice == 1     \* ETH reference prices are 0..MaxEthPrice
MaxAmount == 1       \* decoded swap amounts are -MaxAmount..MaxAmount (whole tokens)
MaxTicks == 3        \* calls of handle_betting_for_transaction by a caller
MaxEvents == 2       \* calls of process_transaction_event
MaxBetCalls == 2     \* calls of place_bet
WordBits == 3        \* width of a data word of a raw log (256 in the program)
MaxDay == 1          \* GMT dates are the day numbers 0..MaxDay
MaxHead == 9         \* block numbers are 0..MaxHead
MaxControlHead == 3  \* the chain head of the specification SpecControl is 0..MaxControlHead
MaxClock == 3        \* time.time() of the specification SpecPrices is 0..MaxClock
MaxBoardPoints == 2  \* daily_points of the stats files of SpecLeaderboard are 0..MaxBoardPoints

\* ------------------------------------------------------------- value sets
Tokens == {"emp", "talos"}

\* The token whose round state machine the specification Spec exercises.
RoundTokens == {"emp"}

\* The token whose monitor loop the specification SpecMonitor runs, and
\* whose logs the specification SpecClassify classifies.
MonitorToken == "emp"
Users == {"A", "B", "C"}

\* The participants the specification SpecStats exercises.
StatsUsers == {"A", "B"}
Choices == {"higher", "lower"}
Tasks == {"loop1", "loop2"}
Hashes == {"0xaa", "0xbb"}

\* Python's None for a price (price_per_token = None); never a legal price.
None == -1

\* token_order when get_token_order returns None
NoOrder == "none"

\* Prices are integers in units of 1/PriceScale USD, PriceScale being a
\* common multiple of 1..MaxAmount so that every division of a USD value
\* by a tracked-token amount is exact.
RECURSIVE Factorial(_)
Factorial(n) == IF n <= 1 THEN 1 ELSE n * Factorial(n - 1)

PriceScale == Factorial(MaxAmount)

TickPrices == {None} \cup (0..MaxPrice)
Amounts == (0 - MaxAmount)..MaxAmount
EthPrices == 0..MaxEthPrice
TokenOrders == {"token0", "token1", NoOrder}
Events ==
    [kind : {"args"}, transactionHash : Hashes, amount0 : Amounts, amount1 : Amounts]
    \cup [kind : {"other"}, transactionHash : Hashes, amount0 : {0}, amount1 : {0}]

\* ---- blocks
Blocks == 0..MaxHead

\* What a call of the provider does: it returns, raises a rate-limit error
\* ("429" or "Too Many Requests" in the text) or raises another error.
CallOutcomes == {"ok", "rate_limit", "error"}

\* pool_address of the monitored token (config.py:25), read as the number
\* its hexadecimal digits denote; it is far above every block number.
pool_address == 57490

\* The tasks that asyncio.create_task(monitor_transactions(...)) can create.
Loops == {"task1", "task2"}

\* ---- raw logs
\* topics[0] of a Swap log and of a Mint log (transaction_utils.py:40,42).
SwapSignature == "0xc42079f9"
MintSignature == "0x7a53080b"

\* The topic lists of the logs a pool emits: none, the signature alone, the
\* signature with one, two (Swap, Flash) or three (Mint, Burn) indexed fields.
TopicLists ==
    {<<>>, <<MintSignature>>, <<SwapSignature, "0x01">>,
     <<SwapSignature, "0x01", "0x02">>, <<MintSignature, "0x01", "0x02">>,
     <<MintSignature, "0x01", "0x02", "0x03">>}

\* Lengths in hex characters of a payload without its "0x": two, two and
\* a half, four, just over four, just under five and five 32-byte fields.
DataLens == {128, 160, 256, 257, 319, 320}

\* A data word is an unsigned integer of WordBits bits.
Words == 0..(2 ^ WordBits - 1)

\* A raw log: its payload is given by its length and its first two words.
RawLogs ==
    [kind : {"raw"}, transactionHash : {"0xaa"}, topics : TopicLists,
     data : [len : DataLens, word0 : Words, word1 : Words]]

\* ---- pools
\* token_address of the tracked token as configured, in mixed case.
TrackedAddress == "0x39D5"

\* str.lower() on the addresses of the model.
lower(address) == IF address = "0x39D5" THEN "0x39d5" ELSE address

\* What token0() and token1() of a pool return, and whether the calls succeed.
Pools ==
    [token0 : {"0x39d5"}, token1 : {"0xc02a"}, readable : BOOLEAN]
    \cup [token0 : {"0xc02a"}, token1 : {"0x39D5"}, readable : BOOLEAN]
    \cup [token0 : {"0xc02a"}, token1 : {"0xa0b8"}, readable : BOOLEAN]

\* The arguments of the classified call: a decoded or raw log, the pool it
\* came from, the ETH price and the display mode of the monitor.
ClassifierInputs ==
    [event : {e \in Events : e.transactionHash = "0xaa"} \cup RawLogs,
     pool : Pools, eth_usd_price : EthPrices, send_transaction_messages : BOOLEAN]

VARIABLES
    active_bets,             \* token -> [price, bets]; a token without a round is not in the domain
    user_stats,              \* user -> [daily_points, total_bets, correct_bets, last_reset_date]
    processed_transactions,  \* token -> set of transaction hashes
    today,                   \* the current GMT date, as a day number
    task,                    \* task -> [pc, token, price, direction, derived, outcome]
    ret,                     \* what the last step returned or did
    bet_log,                 \* history: token -> user -> choices accepted in the token's current round
    accepted_bets,           \* history: user -> number of place_bet calls that returned True
    classified,              \* history: token -> hash -> number of process_swap_event calls
    rounds_opened,           \* history: number of start_new_betting_round calls
    rounds_resolved,         \* history: number of rounds removed by resolve_betting_round
    valid_ticks,             \* history: number of ticks with a valid price
    ticks,                   \* number of direct handle_betting_for_transaction calls
    events,                  \* number of process_transaction_event calls
    bet_calls,               \* number of place_bet calls
    report,                  \* what the last stats read showed: user -> the counters listed
    swap_in,                 \* the arguments of a process_swap_event call
    swap_out,                \* the tuple that call returned, <<>> before the call
    mon_pc,                  \* position of the monitor loop of MonitorToken
    latest_block,            \* its local latest_block: the last block it has dealt with
    current_block,           \* its local current_block: the head it read last
    blocks_processed,        \* its local blocks_processed: progress inside the span
    last_fetch,              \* history: [start_block, end_block, outcome] of the last log fetch
    error_blocks,            \* history: blocks of chunks whose fetch raised a non-rate-limit error
    last_fallback,           \* history: [request, outcome] of the get_logs_via_etherscan call of the last fetch
    monitoring_groups,       \* the tokens that are keys of the dict monitoring_groups
    monitoring_tasks,        \* token -> the task registered as its monitor
    loops,                   \* task -> [pc, latest_block, current_block, cancel, waits] of a monitor_transactions task
    command,                 \* [pc, task]: the command handler in progress
    head,                    \* the block number the provider reports
    dispatched_block,        \* history: block number of the log dispatched last
    price_cache,             \* the dict price_cache: empty, or emp_usd_price and eth_usd_price
    price_cache_timestamp,   \* time of the last refresh of price_cache
    now,                     \* time.time()
    price_ret,               \* [token_symbol, prices, fetched] of the last get_cached_prices call
    last_good,               \* history: the ETH price of the last refresh that obtained one, 0 before
    first_swap,              \* history: what the first classification of the log of swap_in gave
    last_swap,               \* history: what the latest classification of that log gave
    leaderboard              \* [text, entries] of the last get_daily_leaderboard call that sorted

classifier_vars == <<swap_in, swap_out>>

monitor_vars == <<mon_pc, latest_block, current_block, blocks_processed, last_fetch,
                  error_blocks, last_fallback>>

control_vars == <<monitoring_groups, monitoring_tasks, loops, command, head,
                  dispatched_block>>

price_vars == <<price_cache, price_cache_timestamp, now, price_ret, last_good, first_swap,
                last_swap>>

\* The state of the specifications of the commands and of the price cache.
outside == <<control_vars, price_vars, leaderboard>>

\* What the steps of the round machine and of the dispatch leave alone.
elsewhere == <<report, classifier_vars, monitor_vars, outside>>

vars == <<active_bets, user_stats, processed_transactions, today, task, ret,
          bet_log, accepted_bets, classified, rounds_opened, rounds_resolved,
          valid_ticks, ticks, events, bet_calls, report, classifier_vars, monitor_vars,
          outside>>

history == <<bet_log, accepted_bets, classified, rounds_opened, rounds_resolved,
             valid_ticks, ticks, events, bet_calls>>

\* ---------------------------------------------------------------- helpers
Abs(x) == IF x < 0 THEN 0 - x ELSE x

\* the empty Python dict {}
EmptyDict == [x \in {} |-> 0]

\* d[k] = v for a Python dict d
DictSet(d, k, v) == [x \in (DOMAIN d) \cup {k} |-> IF x = k THEN v ELSE d[x]]

\* del d[k]
DictDel(d, k) == [x \in (DOMAIN d) \ {k} |-> d[x]]

\* No get_daily_leaderboard call was made.
NoBoard == [text |-> "", entries |-> <<>>]

\* No process_swap_event call was made.
NoSwap ==
    [event |-> [kind |-> "none"], pool |-> [readable |-> FALSE], eth_usd_price |-> 0,
     send_transaction_messages |-> FALSE]

\* No log fetch was made.
NoFetch == [start_block |-> 0, end_block |-> 0, outcome |-> ""]

\* last_fallback when the last fetch made no get_logs_via_etherscan call
NoFallback ==
    [request |-> [address |-> 0, fromBlock |-> 0, toBlock |-> 0], outcome |-> ""]

\* A task that was not created; latest_block and current_block are locals
\* of the task, cancel says that task.cancel() was called, waits counts (up
\* to 2) the sleeps the task has completed since monitoring was disabled.
NoLoop == [pc |-> "none", latest_block |-> 0, current_block |-> 0, cancel |-> FALSE,
           waits |-> 0]

\* No command handler is in progress.
IdleCommand == [pc |-> "idle", task |-> ""]

\* price_ret before the first get_cached_prices call
NoPrices == [token_symbol |-> "", prices |-> <<0, 0>>, fetched |-> FALSE]

\* first_swap and last_swap before the first classification
NoClassified ==
    [direction |-> "", tracked_token_amount |-> 0, eth_amount |-> 0, total_usd |-> 0,
     price_per_token |-> 0]

IdleTask ==
    [pc |-> "idle", token |-> "", price |-> None, direction |-> "", derived |-> None,
     outcome |-> ""]

NoRet == [op |-> "", token |-> "", user |-> "", price |-> None, ok |-> FALSE, msg |-> ""]

EmptyLog == [u \in Users |-> <<>>]

\* ----------------------------------------------------------- stats ledger
\* The "username" of a stats entry and the "display_name", "chat_id" and
\* "message_id" of a round only feed message texts and are left out.
NewStats(date) ==
    [daily_points |-> 0, total_bets |-> 0, correct_bets |-> 0, last_reset_date |-> date]

award_points_to_user(us, u, date) ==
    LET base == IF u \in DOMAIN us THEN us ELSE DictSet(us, u, NewStats(date))
    IN  [base EXCEPT ![u].daily_points = @ + 1,
                     ![u].correct_bets = @ + 1,
                     ![u].total_bets = @ + 1]

record_bet_for_user(us, u, date) ==
    LET base == IF u \in DOMAIN us THEN us ELSE DictSet(us, u, NewStats(date))
    IN  [base EXCEPT ![u].total_bets = @ + 1]

\* reset_daily_stats with the date current_date.  Dates are compared for
\* inequality only, so the "%Y-%m-%d" strings are kept as day numbers.
\* Every entry the program creates has a last_reset_date.
reset_daily_stats_keeps_points(us, current_date) ==
    [u \in DOMAIN us |->
        IF us[u].last_reset_date # current_date
        THEN [us[u] EXCEPT !.last_reset_date = current_date]
        ELSE us[u]]

\* reset_daily_stats that also clears total_bets.
reset_daily_stats_clears_total(us, current_date) ==
    [u \in DOMAIN us |->
        IF us[u].last_reset_date # current_date
        THEN [us[u] EXCEPT !.last_reset_date = current_date, !.daily_points = 0,
                           !.total_bets = 0]
        ELSE us[u]]

reset_daily_stats(us, current_date) ==
    [u \in DOMAIN us |->
        IF us[u].last_reset_date # current_date
        THEN [us[u] EXCEPT !.last_reset_date = current_date, !.daily_points = 0]
        ELSE us[u]]

\* The counters a stats message shows for a participant.
Shown(stats) ==
    [daily_points |-> stats.daily_points, total_bets |-> stats.total_bets,
     correct_bets |-> stats.correct_bets]

\* get_user_stats: the reset, then the participant's counters, or nothing
\* ("No bets placed yet!") for a participant without an entry.
get_user_stats(us, u, current_date) ==
    LET reset == reset_daily_stats(us, current_date)
    IN  [user_stats |-> reset,
         report |-> IF u \notin DOMAIN reset THEN EmptyDict
                    ELSE DictSet(EmptyDict, u, Shown(reset[u]))]

\* get_daily_leaderboard: the reset, then the entries with daily_points > 0
\* among the first ten by daily_points; with at most ten participants the
\* cut to ten removes nobody.
get_daily_leaderboard(us, current_date) ==
    LET reset == reset_daily_stats(us, current_date)
        listed == {u \in DOMAIN reset : reset[u].daily_points > 0}
    IN  [user_stats |-> reset,
         report |-> [u \in listed |-> Shown(reset[u])]]

\* -------------------------------------------------- round state machine
start_new_betting_round(ab, t, price) ==
    DictSet(ab, t, [price |-> price, bets |-> EmptyDict])

\* place_bet without the "already bet" check: a second bet overwrites the first.
place_bet_no_dup_check(ab, us, t, u, choice, date) ==
    IF t \notin DOMAIN ab
    THEN [ok |-> FALSE, msg |-> "No active betting round", active_bets |-> ab, user_stats |-> us]
    ELSE [ok |-> TRUE, msg |-> "bet",
          active_bets |-> [ab EXCEPT ![t].bets = DictSet(@, u, choice)],
          user_stats |-> record_bet_for_user(us, u, date)]

\* place_bet counting the bet before its checks: a rejected call still bumps total_bets.
place_bet_counts_rejected(ab, us, t, u, choice, date) ==
    IF t \notin DOMAIN ab
    THEN [ok |-> FALSE, msg |-> "No active betting round", active_bets |-> ab,
          user_stats |-> record_bet_for_user(us, u, date)]
    ELSE IF u \in DOMAIN ab[t].bets
    THEN [ok |-> FALSE, msg |-> "tried to bet again", active_bets |-> ab,
          user_stats |-> record_bet_for_user(us, u, date)]
    ELSE [ok |-> TRUE, msg |-> "bet",
          active_bets |-> [ab EXCEPT ![t].bets = DictSet(@, u, choice)],
          user_stats |-> record_bet_for_user(us, u, date)]

place_bet(ab, us, t, u, choice, date) ==
    IF t \notin DOMAIN ab
    THEN [ok |-> FALSE, msg |-> "No active betting round", active_bets |-> ab, user_stats |-> us]
    ELSE IF u \in DOMAIN ab[t].bets
    THEN [ok |-> FALSE, msg |-> "tried to bet again", active_bets |-> ab, user_stats |-> us]
    ELSE [ok |-> TRUE, msg |-> "bet",
          active_bets |-> [ab EXCEPT ![t].bets = DictSet(@, u, choice)],
          user_stats |-> record_bet_for_user(us, u, date)]

\* The price test of handle_betting_for_transaction letting a zero price through.
invalid_price_accepts_zero(transaction_price) ==
    transaction_price = None

\* "transaction_price is None or transaction_price <= 0"
invalid_price(transaction_price) ==
    transaction_price = None \/ transaction_price <= 0

\* winning_choice with the two comparisons exchanged.
winning_choice_flipped(old_price, new_price) ==
    IF new_price < old_price THEN "higher"
    ELSE IF new_price > old_price THEN "lower"
    ELSE "same"

winning_choice(old_price, new_price) ==
    IF new_price > old_price THEN "higher"
    ELSE IF new_price < old_price THEN "lower"
    ELSE "same"

\* resolve_betting_round without "del active_bets[token_key]".
resolve_betting_round_keeps_round(ab, us, t, new_price, date) ==
    IF t \notin DOMAIN ab
    THEN [resolved |-> FALSE, winners |-> {}, active_bets |-> ab, user_stats |-> us]
    ELSE LET bets == ab[t].bets
             win == winning_choice(ab[t].price, new_price)
             winners == {u \in DOMAIN bets : bets[u] = win}
         IN  [resolved |-> TRUE,
              winners |-> winners,
              active_bets |-> ab,
              user_stats |->
                  [u \in (DOMAIN us) \cup winners |->
                      IF u \in winners THEN award_points_to_user(us, u, date)[u] ELSE us[u]]]

resolve_betting_round(ab, us, t, new_price, date) ==
    IF t \notin DOMAIN ab
    THEN [resolved |-> FALSE, winners |-> {}, active_bets |-> ab, user_stats |-> us]
    ELSE LET old_price == ab[t].price
             bets == ab[t].bets
             win == winning_choice(old_price, new_price)
             winners == {u \in DOMAIN bets : bets[u] = win}
         IN  [resolved |-> TRUE,
              winners |-> winners,
              active_bets |-> DictDel(ab, t),
              user_stats |->
                  [u \in (DOMAIN us) \cup winners |->
                      IF u \in winners THEN award_points_to_user(us, u, date)[u] ELSE us[u]]]

\* ------------------------------------------------------- swap classifier
\* tracked_token_amount_raw with the two slots exchanged.
tracked_token_amount_raw_swapped(event, token_order) ==
    IF token_order = "token0" THEN event.amount1 ELSE event.amount0

\* The tracked-token delta: amount0 when the tracked token is token0, else amount1.
tracked_token_amount_raw(event, token_order) ==
    IF token_order = "token0" THEN event.amount0 ELSE event.amount1

eth_amount_raw(event, token_order) ==
    IF token_order = "token0" THEN event.amount1 ELSE event.amount0

swap_direction(tracked_raw) ==
    IF tracked_raw < 0 THEN "BUY"
    ELSE IF tracked_raw > 0 THEN "SELL"
    ELSE "SWAP"

\* The local price_per_token of process_swap_event (the value shown in the message).
price_per_token(event, token_order, eth_usd_price) ==
    LET tracked_token_amount == Abs(tracked_token_amount_raw(event, token_order))
        eth_amount == Abs(eth_amount_raw(event, token_order))
        total_usd == eth_amount * eth_usd_price
    IN  IF tracked_token_amount > 0 /\ total_usd > 0
        THEN (total_usd * PriceScale) \div tracked_token_amount
        ELSE 0

\* The number of characters of data[from:to] for a string of len characters.
SliceLen(len, from, to) ==
    LET stop == IF len < to THEN len ELSE to
    IN  IF stop > from THEN stop - from ELSE 0

\* hex_to_signed_int without the two's complement step.
hex_to_signed_int_unsigned(value) == value

\* hex_to_signed_int on a word of WordBits bits: two's complement.
hex_to_signed_int(value) ==
    IF value > 2 ^ (WordBits - 1) - 1 THEN value - 2 ^ WordBits ELSE value

\* decode_swap_event_data: ok = FALSE stands for the None it returns.  The
\* five fields are the slices [0:64], [64:128], [128:192], [192:256] and
\* [256:320] of the payload; int(hex_str, 16) raises ValueError on an empty
\* slice, and the except clause turns that into None.
decode_swap_event_data(data, topics) ==
    LET failed == [ok |-> FALSE, amount0 |-> 0, amount1 |-> 0]
    IN  IF Len(topics) < 1 THEN failed
        ELSE IF Len(topics) < 3 THEN failed
        ELSE IF data.len < 160 THEN failed
        ELSE IF \E i \in 0..4 : SliceLen(data.len, 64 * i, 64 * (i + 1)) = 0 THEN failed
        ELSE [ok |-> TRUE,
              amount0 |-> hex_to_signed_int(data.word0),
              amount1 |-> hex_to_signed_int(data.word1)]

\* amount0_raw and amount1_raw of process_swap_event: read from event["args"],
\* or decoded from a raw log; ok = FALSE when the raw log does not decode.
event_amounts(event) ==
    IF event.kind = "args"
    THEN [ok |-> TRUE, amount0 |-> event.amount0, amount1 |-> event.amount1]
    ELSE decode_swap_event_data(event.data, event.topics)

\* get_token_order: None when a call fails or the tracked token is in neither slot.
get_token_order(pool, token_address) ==
    IF ~pool.readable THEN NoOrder
    ELSE IF lower(pool.token0) = lower(token_address) THEN "token0"
    ELSE IF lower(pool.token1) = lower(token_address) THEN "token1"
    ELSE NoOrder

\* process_swap_event guessing 'token0' when get_token_order returns None.
process_swap_event_assumes_token0(event, token_order, eth_usd_price) ==
    IF event.kind \notin {"args", "raw"}
    THEN <<"Transaction Detected", "SWAP">>
    ELSE IF ~event_amounts(event).ok
    THEN <<"Pool Activity Detected", "POOL_ACTIVITY">>
    ELSE LET amounts == event_amounts(event)
             order == IF token_order = NoOrder THEN "token0" ELSE token_order
             direction == swap_direction(tracked_token_amount_raw(amounts, order))
         IN  IF direction = "BUY" THEN <<"BOUGHT", direction>>
             ELSE IF direction = "SELL" THEN <<"SOLD", direction>>
             ELSE <<"Swap Detected", "SWAP">>

\* The tuple process_swap_event returns: every return statement gives
\* (message, direction); the message is kept as its title only.  An event is
\* a decoded Swap log (kind "args"), a raw log (kind "raw") or a log of
\* another structure.
process_swap_event(event, token_order, eth_usd_price) ==
    IF event.kind \notin {"args", "raw"}
    THEN <<"Transaction Detected", "SWAP">>
    ELSE IF ~event_amounts(event).ok
    THEN <<"Pool Activity Detected", "POOL_ACTIVITY">>
    ELSE IF token_order = NoOrder
    THEN <<"Swap Detected (Unknown Direction)", "UNKNOWN">>
    ELSE LET amounts == event_amounts(event)
             direction == swap_direction(tracked_token_amount_raw(amounts, token_order))
         IN  IF direction = "BUY" THEN <<"BOUGHT", direction>>
             ELSE IF direction = "SELL" THEN <<"SOLD", direction>>
             ELSE <<"Swap Detected", "SWAP">>

\* The unpacking of that tuple in process_transaction_event.
unpack_price(result) ==
    IF Len(result) = 3 THEN result[3] ELSE None

\* ------------------------------------------------------------ dedup step
\* the dedup step without its "already processed" check.
already_processed_never(pt, t, tx_hash) == FALSE

already_processed(pt, t, tx_hash) == tx_hash \in pt[t]

\* the dedup step without "processed_transactions[token_key].add(tx_hash)".
add_processed_forgotten(pt, t, tx_hash) == pt

add_processed(pt, t, tx_hash) == [pt EXCEPT ![t] = @ \cup {tx_hash}]

\* ------------------------------------------------------------------- Init
\* The state after import with no persisted files: load_data leaves the
\* dicts empty, no task is running.
InitMemory ==
    /\ active_bets = EmptyDict
    /\ processed_transactions = [t \in Tokens |-> {}]
    /\ today = 0
    /\ task = [k \in Tasks |-> IdleTask]
    /\ ret = NoRet
    /\ bet_log = [t \in Tokens |-> EmptyLog]
    /\ accepted_bets = [u \in Users |-> 0]
    /\ classified = [t \in Tokens |-> [h \in Hashes |-> 0]]
    /\ rounds_opened = 0
    /\ rounds_resolved = 0
    /\ valid_ticks = 0
    /\ ticks = 0
    /\ events = 0
    /\ bet_calls = 0
    /\ report = EmptyDict
    /\ swap_out = <<>>
    /\ mon_pc = "start"
    /\ latest_block = 0
    /\ current_block = 0
    /\ blocks_processed = 0
    /\ last_fetch = NoFetch
    /\ error_blocks = {}
    /\ last_fallback = NoFallback
    /\ monitoring_groups = {}
    /\ monitoring_tasks = EmptyDict
    /\ loops = [l \in Loops |-> NoLoop]
    /\ command = IdleCommand
    /\ head = 0
    /\ dispatched_block = 0
    /\ price_cache = EmptyDict
    /\ price_cache_timestamp = 0
    /\ now = 0
    /\ price_ret = NoPrices
    /\ last_good = 0
    /\ first_swap = NoClassified
    /\ last_swap = NoClassified
    /\ leaderboard = NoBoard

InitProgram == InitMemory /\ user_stats = EmptyDict

Init == InitProgram /\ swap_in = NoSwap

\* The state in which one log is about to be handed to process_transaction_event.
InitClassify == InitProgram /\ swap_in \in ClassifierInputs

\* The pcs at which a task is inside handle_betting_for_transaction.
BettingPcs == {"hb_send_result", "hb_sleep", "hb_send_new"}

\* What the returning handler reports: a direct call reports its tick price,
\* process_transaction_event reports the classification of its log.
DoneRet(t, price, direction, derived, msg) ==
    IF direction = ""
    THEN [op |-> "handle_betting_for_transaction", token |-> t, user |-> "",
          price |-> price, ok |-> (price # None /\ price > 0), msg |-> msg]
    ELSE [op |-> "process_transaction_event", token |-> t, user |-> "",
          price |-> derived, ok |-> (direction \in {"BUY", "SELL"} /\ derived > 0),
          msg |-> msg]

\* ---------------------------------------------------------------- actions
\* place_bet is synchronous: one atomic step of the command path.
PlaceBet(t, u, choice) ==
    /\ bet_calls < MaxBetCalls
    /\ UNCHANGED elsewhere
    /\ LET r == place_bet(active_bets, user_stats, t, u, choice, today)
       IN  /\ active_bets' = r.active_bets
           /\ user_stats' = r.user_stats
           /\ ret' = [op |-> "place_bet", token |-> t, user |-> u, price |-> None,
                      ok |-> r.ok, msg |-> r.msg]
           /\ bet_log' = IF r.ok THEN [bet_log EXCEPT ![t][u] = Append(@, choice)] ELSE bet_log
           /\ accepted_bets' = IF r.ok THEN [accepted_bets EXCEPT ![u] = @ + 1] ELSE accepted_bets
    /\ bet_calls' = bet_calls + 1
    /\ UNCHANGED <<processed_transactions, today, task, classified, rounds_opened,
                   rounds_resolved, valid_ticks, ticks, events>>

\* handle_betting_for_transaction from its entry to its first await (or return).
handle_betting_for_transaction(k, t, transaction_price, direction, derived) ==
    IF invalid_price(transaction_price)
    THEN /\ task' = [task EXCEPT ![k] = IdleTask]
         /\ ret' = DoneRet(t, transaction_price, direction, derived, "invalid price")
         /\ UNCHANGED <<active_bets, user_stats, bet_log, rounds_opened,
                        rounds_resolved, valid_ticks>>
    ELSE LET r == resolve_betting_round(active_bets, user_stats, t, transaction_price, today)
         IN  /\ valid_ticks' = valid_ticks + 1
             /\ user_stats' = r.user_stats
             /\ bet_log' = [bet_log EXCEPT ![t] = EmptyLog]
             /\ IF r.resolved
                THEN \* result_message is set: await bot.send_message(result_message)
                     /\ active_bets' = r.active_bets
                     /\ rounds_resolved' = rounds_resolved + 1
                     /\ task' = [task EXCEPT ![k] =
                            [pc |-> "hb_send_result", token |-> t, price |-> transaction_price,
                             direction |-> direction, derived |-> derived,
                             outcome |-> winning_choice(active_bets[t].price, transaction_price)]]
                     /\ ret' = [NoRet EXCEPT !.op = "resolve", !.token = t,
                                             !.price = transaction_price]
                     /\ UNCHANGED rounds_opened
                ELSE \* no round to resolve: start the round, await bot.send_message(betting_message)
                     /\ active_bets' = start_new_betting_round(r.active_bets, t, transaction_price)
                     /\ rounds_opened' = rounds_opened + 1
                     /\ task' = [task EXCEPT ![k] =
                            [pc |-> "hb_send_new", token |-> t, price |-> transaction_price,
                             direction |-> direction, derived |-> derived, outcome |-> ""]]
                     /\ ret' = [NoRet EXCEPT !.op = "open", !.token = t]
                     /\ UNCHANGED rounds_resolved

\* A caller feeds a price tick to handle_betting_for_transaction.
HandleBettingCall(k, t, p) ==
    /\ task[k].pc = "idle"
    /\ UNCHANGED elsewhere
    /\ ticks < MaxTicks
    /\ ticks' = ticks + 1
    /\ handle_betting_for_transaction(k, t, p, "", None)
    /\ UNCHANGED <<processed_transactions, today, accepted_bets, classified, events, bet_calls>>

\* await bot.send_message(result_message) returns: await asyncio.sleep(2)
SendResultOk(k) ==
    /\ task[k].pc = "hb_send_result"
    /\ UNCHANGED elsewhere
    /\ task' = [task EXCEPT ![k].pc = "hb_sleep"]
    /\ ret' = [NoRet EXCEPT !.op = "send_result", !.token = task[k].token]
    /\ UNCHANGED <<active_bets, user_stats, processed_transactions, today, history>>

\* await bot.send_message(result_message) raises: the except clause of
\* handle_betting_for_transaction prints the error and the handler returns.
SendResultFail(k) ==
    /\ task[k].pc = "hb_send_result"
    /\ UNCHANGED elsewhere
    /\ task' = [task EXCEPT ![k] = IdleTask]
    /\ ret' = DoneRet(task[k].token, task[k].price, task[k].direction, task[k].derived,
                      "send failed")
    /\ UNCHANGED <<active_bets, user_stats, processed_transactions, today, history>>

\* asyncio.sleep(2) is over: start_new_betting_round, then await bot.send_message
SleepDone(k) ==
    /\ task[k].pc = "hb_sleep"
    /\ UNCHANGED elsewhere
    /\ active_bets' = start_new_betting_round(active_bets, task[k].token, task[k].price)
    /\ bet_log' = [bet_log EXCEPT ![task[k].token] = EmptyLog]
    /\ rounds_opened' = rounds_opened + 1
    /\ task' = [task EXCEPT ![k].pc = "hb_send_new"]
    /\ ret' = [NoRet EXCEPT !.op = "open", !.token = task[k].token]
    /\ UNCHANGED <<user_stats, processed_transactions, today, accepted_bets, classified,
                   rounds_resolved, valid_ticks, ticks, events, bet_calls>>

\* await bot.send_message(betting_message) returns or raises: the handler returns.
SendNewDone(k) ==
    /\ task[k].pc = "hb_send_new"
    /\ UNCHANGED elsewhere
    /\ task' = [task EXCEPT ![k] = IdleTask]
    /\ ret' = DoneRet(task[k].token, task[k].price, task[k].direction, task[k].derived,
                      "returned")
    /\ UNCHANGED <<active_bets, user_stats, processed_transactions, today, history>>

\* process_transaction_event from its entry to its first await: the dedup
\* step, the classification and the unpacking of its result.
process_transaction_event(k, t, event, token_order, eth_usd_price, send_transaction_messages) ==
    /\ task[k].pc = "idle"
    /\ events < MaxEvents
    /\ events' = events + 1
    /\ IF already_processed(processed_transactions, t, event.transactionHash)
       THEN /\ ret' = [op |-> "process_transaction_event", token |-> t, user |-> "",
                       price |-> None, ok |-> FALSE, msg |-> "skipped"]
            /\ UNCHANGED <<processed_transactions, task, classified>>
       ELSE LET result == process_swap_event(event, token_order, eth_usd_price)
                direction == result[2]
                known == event.kind \in {"args", "raw"}
                derived == IF known /\ event_amounts(event).ok /\ token_order # NoOrder
                           THEN price_per_token(event_amounts(event), token_order,
                                                eth_usd_price)
                           ELSE None
            IN  /\ processed_transactions' =
                       add_processed(processed_transactions, t, event.transactionHash)
                /\ classified' = [classified EXCEPT ![t][event.transactionHash] = @ + 1]
                /\ task' = [task EXCEPT ![k] =
                       [pc |-> IF send_transaction_messages THEN "pte_send" ELSE "pte_sleep",
                        token |-> t, price |-> unpack_price(result),
                        direction |-> direction, derived |-> derived, outcome |-> ""]]
                /\ ret' = [op |-> "classify", token |-> t, user |-> "",
                           price |-> derived, ok |-> (direction \in {"BUY", "SELL"}),
                           msg |-> direction]
    /\ UNCHANGED <<active_bets, user_stats, today, bet_log, accepted_bets, rounds_opened,
                   rounds_resolved, valid_ticks, ticks, bet_calls>>

\* The monitor hands a log to process_transaction_event.
ProcessTransactionEvent(k, t, event, token_order, eth_usd_price, send_transaction_messages) ==
    /\ process_transaction_event(k, t, event, token_order, eth_usd_price,
                                 send_transaction_messages)
    /\ UNCHANGED elsewhere

\* process_transaction_event on the log of swap_in, with the tuple that
\* process_swap_event returns for it kept in swap_out.
ClassifyEvent(k) ==
    /\ swap_in.event.kind # "none"
    /\ swap_out = <<>>
    /\ LET token_order == get_token_order(swap_in.pool, TrackedAddress)
       IN  /\ process_transaction_event(k, MonitorToken, swap_in.event, token_order,
                                        swap_in.eth_usd_price,
                                        swap_in.send_transaction_messages)
           /\ swap_out' = process_swap_event(swap_in.event, token_order,
                                             swap_in.eth_usd_price)
    /\ UNCHANGED <<swap_in, report, monitor_vars, outside>>

\* The transaction message was sent, or sending raised and the error was
\* printed: await asyncio.sleep(1)
PteSendDone(k) ==
    /\ task[k].pc = "pte_send"
    /\ UNCHANGED elsewhere
    /\ task' = [task EXCEPT ![k].pc = "pte_sleep"]
    /\ ret' = [NoRet EXCEPT !.op = "send_transaction", !.token = task[k].token]
    /\ UNCHANGED <<active_bets, user_stats, processed_transactions, today, history>>

\* asyncio.sleep(1) is over: await handle_betting_for_transaction(token_key, price_per_token)
PteSleepDone(k) ==
    /\ task[k].pc = "pte_sleep"
    /\ UNCHANGED elsewhere
    /\ handle_betting_for_transaction(k, task[k].token, task[k].price,
                                      task[k].direction, task[k].derived)
    /\ UNCHANGED <<processed_transactions, today, accepted_bets, classified, ticks,
                   events, bet_calls>>

\* ------------------------------------------------------------ stats reads
\* Midnight GMT passes: get_current_gmt_date() returns the next date.
NextDay ==
    /\ today < MaxDay
    /\ today' = today + 1
    /\ ret' = [NoRet EXCEPT !.op = "midnight"]
    /\ UNCHANGED <<active_bets, user_stats, processed_transactions, task, history, elsewhere>>

\* A participant asks for their stats.
GetUserStats(u) ==
    /\ LET r == get_user_stats(user_stats, u, today)
       IN  /\ user_stats' = r.user_stats
           /\ report' = r.report
    /\ ret' = [NoRet EXCEPT !.op = "get_user_stats", !.user = u]
    /\ UNCHANGED <<active_bets, processed_transactions, today, task, history,
                   classifier_vars, monitor_vars, outside>>

\* Somebody asks for the leaderboard.
GetDailyLeaderboard ==
    /\ LET r == get_daily_leaderboard(user_stats, today)
       IN  /\ user_stats' = r.user_stats
           /\ report' = r.report
    /\ ret' = [NoRet EXCEPT !.op = "get_daily_leaderboard"]
    /\ UNCHANGED <<active_bets, processed_transactions, today, task, history,
                   classifier_vars, monitor_vars, outside>>

\* Specification of the round state machine: bets and price ticks fed to
\* handle_betting_for_transaction by up to two tasks, for one token.
Next ==
    \/ \E t \in RoundTokens, u \in Users, c \in Choices : PlaceBet(t, u, c)
    \/ \E k \in Tasks, t \in RoundTokens, p \in TickPrices : HandleBettingCall(k, t, p)
    \/ \E k \in Tasks : SendResultOk(k)
    \/ \E k \in Tasks : SendResultFail(k)
    \/ \E k \in Tasks : SleepDone(k)
    \/ \E k \in Tasks : SendNewDone(k)

Spec == Init /\ [][Next]_vars

\* Specification of the monitor's dispatch: logs handed to
\* process_transaction_event by up to two tasks.
NextEvents ==
    \/ \E k \in Tasks, t \in Tokens, e \in Events, o \in TokenOrders, p \in EthPrices,
          s \in BOOLEAN : ProcessTransactionEvent(k, t, e, o, p, s)
    \/ \E k \in Tasks : PteSendDone(k)
    \/ \E k \in Tasks : PteSleepDone(k)

SpecEvents == Init /\ [][NextEvents]_vars

\* ------------------------------------------------------------ monitor loop
\* monitor_transactions of MonitorToken.  Its positions are: "start" (the
\* first head query), "start_backoff" (asyncio.sleep(60) after a rate-limited
\* first query), "poll" (top of the while loop), "fetch" (top of the chunk
\* loop), "fetch_backoff" (asyncio.sleep(30) after a rate-limited fetch),
\* "sleep" (asyncio.sleep of the polling interval or of 10 seconds after an
\* error) and "ended".
network(t) == IF t = "emp" THEN "ethereum" ELSE "arbitrum"

max_blocks_per_call(net) == IF net = "ethereum" THEN 5 ELSE 50

skip_threshold(net) == IF net = "ethereum" THEN 8 ELSE 100

\* blocks_to_process of the span being processed
blocks_to_process == current_block - latest_block

\* batch_size, start_block and end_block of the next chunk
batch_size ==
    LET rest == blocks_to_process - blocks_processed
        most == max_blocks_per_call(network(MonitorToken))
    IN  IF most < rest THEN most ELSE rest

\* The chunk of start_block that begins at the cursor itself, not one above it.
start_block_overlapping == latest_block + blocks_processed

start_block == latest_block + blocks_processed + 1

end_block == start_block + batch_size - 1

MonRet(op) == [NoRet EXCEPT !.op = op, !.token = MonitorToken]

\* latest_block = w3.eth.block_number before the loop, first try or retry.
MonitorStart(b) ==
    /\ mon_pc \in {"start", "start_backoff"}
    /\ latest_block' = b
    /\ mon_pc' = "poll"
    /\ ret' = MonRet("start")
    /\ UNCHANGED <<active_bets, user_stats, processed_transactions, today, task, history,
                   report, classifier_vars, outside, current_block, blocks_processed, last_fetch,
                   error_blocks, last_fallback>>

\* The first head query raises: a rate-limit error on the first try leads to
\* asyncio.sleep(60) and a retry, every other failure ends the task.
MonitorStartFail(outcome) ==
    /\ mon_pc \in {"start", "start_backoff"}
    /\ outcome # "ok"
    /\ mon_pc' = IF mon_pc = "start" /\ outcome = "rate_limit" THEN "start_backoff" ELSE "ended"
    /\ ret' = MonRet("start_failed")
    /\ UNCHANGED <<active_bets, user_stats, processed_transactions, today, task, history,
                   report, classifier_vars, outside, latest_block, current_block, blocks_processed,
                   last_fetch, error_blocks, last_fallback>>

\* Poll that takes every head as the new cursor position.
Poll_follows_head(b) ==
    /\ mon_pc = "poll"
    /\ current_block' = b
    /\ latest_block' = b
    /\ mon_pc' = "sleep"
    /\ ret' = MonRet("no_new_block")
    /\ UNCHANGED <<active_bets, user_stats, processed_transactions, today, task, history,
                   report, classifier_vars, outside, blocks_processed, last_fetch,
                   error_blocks, last_fallback>>

\* Poll without the skip-forward: every span is processed chunk by chunk.
Poll_never_skips(b) ==
    /\ mon_pc = "poll"
    /\ current_block' = b
    /\ IF b > latest_block
       THEN /\ blocks_processed' = 0
            /\ mon_pc' = "fetch"
            /\ ret' = MonRet("span")
            /\ UNCHANGED latest_block
       ELSE /\ mon_pc' = "sleep"
            /\ ret' = MonRet("no_new_block")
            /\ UNCHANGED <<latest_block, blocks_processed>>
    /\ UNCHANGED <<active_bets, user_stats, processed_transactions, today, task, history,
                   report, classifier_vars, outside, last_fetch, error_blocks, last_fallback>>

\* One pass of the while loop up to the chunk loop: the head query, the
\* comparison with latest_block and the skip-forward.
Poll(b) ==
    /\ mon_pc = "poll"
    /\ current_block' = b
    /\ IF b > latest_block
       THEN IF b - latest_block > skip_threshold(network(MonitorToken))
            THEN /\ latest_block' = b - 2
                 /\ mon_pc' = "poll"
                 /\ ret' = MonRet("skip_forward")
                 /\ UNCHANGED blocks_processed
            ELSE /\ blocks_processed' = 0
                 /\ mon_pc' = "fetch"
                 /\ ret' = MonRet("span")
                 /\ UNCHANGED latest_block
       ELSE /\ mon_pc' = "sleep"
            /\ ret' = MonRet("no_new_block")
            /\ UNCHANGED <<latest_block, blocks_processed>>
    /\ UNCHANGED <<active_bets, user_stats, processed_transactions, today, task, history,
                   report, classifier_vars, outside, last_fetch, error_blocks, last_fallback>>

\* The head query raises: on a rate-limit error the loop continues at once,
\* on another error it sleeps 10 seconds.
PollFail(outcome) ==
    /\ mon_pc = "poll"
    /\ outcome # "ok"
    /\ mon_pc' = IF outcome = "rate_limit" THEN "poll" ELSE "sleep"
    /\ ret' = MonRet(IF outcome = "rate_limit" THEN "head_rate_limited" ELSE "head_error")
    /\ UNCHANGED <<active_bets, user_stats, processed_transactions, today, task, history,
                   report, classifier_vars, outside, latest_block, current_block, blocks_processed,
                   last_fetch, error_blocks, last_fallback>>

\* The end of a pass of the chunk loop that counted its chunk: the next
\* chunk, or after the last one "latest_block = current_block" and the sleep
\* of the polling interval.
ChunkCounted ==
    /\ blocks_processed' = blocks_processed + batch_size
    /\ IF blocks_processed + batch_size < blocks_to_process
       THEN mon_pc' = "fetch" /\ UNCHANGED latest_block
       ELSE mon_pc' = "sleep" /\ latest_block' = current_block

\* One chunk: the Swap query returns the logs with the hashes in found, each
\* is handed to process_transaction_event (whose effect on the state of this
\* specification is the dedup step), and the chunk is counted.
FetchOk(found) ==
    /\ mon_pc = "fetch"
    /\ found # {}
    /\ processed_transactions' =
           [processed_transactions EXCEPT ![MonitorToken] = @ \cup found]
    /\ last_fetch' = [start_block |-> start_block, end_block |-> end_block, outcome |-> "ok"]
    /\ last_fallback' = NoFallback
    /\ ChunkCounted
    /\ ret' = MonRet("fetched")
    /\ UNCHANGED <<active_bets, user_stats, today, task, history, report, classifier_vars, outside,
                   current_block, error_blocks>>

\* unified_etherscan_api_call(module="logs", action="getLogs", **params): the
\* request goes out with the parameters as given; the result is returned
\* when the service answers with status "1", which it does when logs match
\* the filter, and None (ok = FALSE) on every other answer and on every
\* exception.  The logs of the model are those of the pool: a filter with
\* another address matches none.
unified_etherscan_api_call(params, outcome, found) ==
    LET matching == IF params.address = pool_address /\ params.fromBlock <= params.toBlock
                    THEN found ELSE {}
    IN  [request |-> params,
         ok |-> (outcome = "ok" /\ matching # {}),
         result |-> IF outcome = "ok" THEN matching ELSE {}]

\* get_logs_via_etherscan(from_block, to_block, address, token_key)
get_logs_via_etherscan(from_block, to_block, address, outcome, found) ==
    unified_etherscan_api_call(
        [fromBlock |-> from_block, toBlock |-> to_block, address |-> address],
        outcome, found)

\* One chunk whose Swap query returns no events: the fallback
\* get_logs_via_etherscan(token_config["pool_address"], start_block,
\* end_block, token_key), "if events is None: events = []", the dispatch of
\* the logs it returned, and the chunk is counted.
FetchFallback(outcome, found) ==
    /\ mon_pc = "fetch"
    /\ LET answer == get_logs_via_etherscan(pool_address, start_block, end_block,
                                            outcome, found)
           logs == IF answer.ok THEN answer.result ELSE {}
       IN  /\ last_fallback' = [request |-> answer.request, outcome |-> outcome]
           /\ processed_transactions' =
                  [processed_transactions EXCEPT ![MonitorToken] = @ \cup logs]
    /\ last_fetch' = [start_block |-> start_block, end_block |-> end_block, outcome |-> "ok"]
    /\ ChunkCounted
    /\ ret' = MonRet("fallback")
    /\ UNCHANGED <<active_bets, user_stats, today, task, history, report, classifier_vars, outside,
                   current_block, error_blocks>>

\* One chunk whose fetch raises a rate-limit error: asyncio.sleep(30), then
\* the chunk loop continues with blocks_processed as it was.
FetchRateLimited ==
    /\ mon_pc = "fetch"
    /\ last_fetch' = [start_block |-> start_block, end_block |-> end_block,
                      outcome |-> "rate_limit"]
    /\ last_fallback' = NoFallback
    /\ mon_pc' = "fetch_backoff"
    /\ ret' = MonRet("fetch_rate_limited")
    /\ UNCHANGED <<active_bets, user_stats, processed_transactions, today, task, history,
                   report, classifier_vars, outside, latest_block, current_block, blocks_processed,
                   error_blocks>>

\* One chunk whose fetch raises another error: "blocks_processed +=
\* batch_size" and the chunk loop continues.
FetchError ==
    /\ mon_pc = "fetch"
    /\ last_fetch' = [start_block |-> start_block, end_block |-> end_block,
                      outcome |-> "error"]
    /\ last_fallback' = NoFallback
    /\ error_blocks' = error_blocks \cup (start_block..end_block)
    /\ ChunkCounted
    /\ ret' = MonRet("fetch_error")
    /\ UNCHANGED <<active_bets, user_stats, processed_transactions, today, task, history,
                   report, classifier_vars, outside, current_block>>

\* asyncio.sleep(30) of the chunk loop is over.
FetchBackoffDone ==
    /\ mon_pc = "fetch_backoff"
    /\ mon_pc' = "fetch"
    /\ ret' = MonRet("retry")
    /\ UNCHANGED <<active_bets, user_stats, processed_transactions, today, task, history,
                   report, classifier_vars, outside, latest_block, current_block, blocks_processed,
                   last_fetch, error_blocks, last_fallback>>

\* asyncio.sleep at the end of a pass of the while loop is over.
PollSleepDone ==
    /\ mon_pc = "sleep"
    /\ mon_pc' = "poll"
    /\ ret' = MonRet("wake")
    /\ UNCHANGED <<active_bets, user_stats, processed_transactions, today, task, history,
                   report, classifier_vars, outside, latest_block, current_block, blocks_processed,
                   last_fetch, error_blocks, last_fallback>>

\* Specification of the monitor loop of one token: the provider answers the
\* head query with any block number and each call with any outcome.
NextMonitor ==
    \/ \E b \in Blocks : MonitorStart(b)
    \/ \E o \in CallOutcomes : MonitorStartFail(o)
    \/ \E b \in Blocks : Poll(b)
    \/ \E o \in CallOutcomes : PollFail(o)
    \/ \E found \in SUBSET Hashes : FetchOk(found)
    \/ \E o \in CallOutcomes, found \in {{}, Hashes} : FetchFallback(o, found)
    \/ FetchRateLimited
    \/ FetchError
    \/ FetchBackoffDone
    \/ PollSleepDone

SpecMonitor == Init /\ [][NextMonitor]_vars

\* Specification of the classifier: process_transaction_event run on one log
\* drawn from the decoded and raw logs, for every pool and display mode.
NextClassify ==
    \/ ClassifyEvent("loop1")
    \/ \E k \in Tasks : PteSendDone(k)
    \/ \E k \in Tasks : PteSleepDone(k)

SpecClassify == InitClassify /\ [][NextClassify]_vars

\* Specification of the stats ledger: the round machine driven by one task,
\* the date moving on, and the stats reads.
NextStats ==
    \/ \E t \in RoundTokens, u \in StatsUsers, c \in Choices : PlaceBet(t, u, c)
    \/ \E t \in RoundTokens, p \in TickPrices : HandleBettingCall("loop1", t, p)
    \/ \E k \in Tasks : SendResultOk(k)
    \/ \E k \in Tasks : SendResultFail(k)
    \/ \E k \in Tasks : SleepDone(k)
    \/ \E k \in Tasks : SendNewDone(k)
    \/ NextDay
    \/ \E u \in StatsUsers : GetUserStats(u)
    \/ GetDailyLeaderboard

SpecStats == Init /\ [][NextStats]_vars

\* --------------------------------------------------- starting and stopping
\* The commands /startmonitor and /stopmonitor (start_monitoring and
\* stop_monitoring of bot.py) and the monitor_transactions tasks they create
\* and cancel, for MonitorToken.  The application handles one update at a
\* time (ApplicationBuilder().token(TOKEN).build(), no concurrent updates),
\* so one command handler is in progress at most.  A task has the positions
\* of the monitor loop above and "none" (not created), "created" (created by
\* asyncio.create_task, not yet run) and "dispatch" (inside the awaits of
\* process_transaction_event for the logs of a chunk).  At "poll" and
\* "fetch" a task is running: it has not reached an await since it last
\* resumed, so no other task and no handler runs.
core_vars == <<active_bets, user_stats, processed_transactions, today, task, ret, history,
               report, classifier_vars, monitor_vars, leaderboard>>

program_vars == <<core_vars, price_vars>>

RunningPcs == {"poll", "fetch"}

\* The positions at which a task is suspended in an await.
AwaitPcs == {"start_backoff", "sleep", "fetch_backoff", "dispatch"}

\* No task other than l is between two awaits.
MayRun(l) == \A m \in Loops \ {l} : loops[m].pc \notin RunningPcs

Quiet == \A m \in Loops : loops[m].pc \notin RunningPcs

\* The finally clause of monitor_transactions: the entry of the token in
\* monitoring_tasks is deleted, whichever task it names.
TaskEnded == monitoring_tasks' = DictDel(monitoring_tasks, MonitorToken)

\* The provider reports a new block.
ChainAdvance ==
    /\ head < MaxControlHead
    /\ head' = head + 1
    /\ UNCHANGED <<program_vars, monitoring_groups, monitoring_tasks, loops, command,
                   dispatched_block>>

\* start_monitoring up to "await context.bot.send_message": the token is
\* entered in monitoring_groups.
StartMonitoring ==
    /\ command.pc = "idle"
    /\ Quiet
    /\ \E l \in Loops : loops[l].pc \in {"none", "ended"}
    /\ monitoring_groups' = monitoring_groups \cup {MonitorToken}
    /\ loops' = [l \in Loops |-> [loops[l] EXCEPT !.waits = 0]]
    /\ command' = [pc |-> "start_sending", task |-> ""]
    /\ UNCHANGED <<program_vars, monitoring_tasks, head, dispatched_block>>

\* start_monitoring after the message:
\* asyncio.create_task(monitor_transactions(context.bot, token_key, chat_id)).
StartMonitoringCreate(l) ==
    /\ command.pc = "start_sending"
    /\ Quiet
    /\ loops[l].pc \in {"none", "ended"}
    /\ loops' = [loops EXCEPT ![l] = [NoLoop EXCEPT !.pc = "created"]]
    /\ command' = IdleCommand
    /\ UNCHANGED <<program_vars, monitoring_groups, monitoring_tasks, head, dispatched_block>>

\* stop_monitoring up to its first await: the task registered for the token
\* is cancelled and awaited; without a registered task the token is deleted
\* from monitoring_groups at once; without the token nothing changes.
StopMonitoring ==
    /\ command.pc = "idle"
    /\ Quiet
    /\ IF MonitorToken \in monitoring_groups
       THEN IF MonitorToken \in DOMAIN monitoring_tasks
            THEN /\ loops' = [loops EXCEPT ![monitoring_tasks[MonitorToken]].cancel = TRUE]
                 /\ command' = [pc |-> "stop_waiting", task |-> monitoring_tasks[MonitorToken]]
                 /\ UNCHANGED monitoring_groups
            ELSE /\ monitoring_groups' = monitoring_groups \ {MonitorToken}
                 /\ UNCHANGED <<loops, command>>
       ELSE UNCHANGED <<monitoring_groups, loops, command>>
    /\ UNCHANGED <<program_vars, monitoring_tasks, head, dispatched_block>>

\* stop_monitoring after "await task": del monitoring_groups[token_key].
StopMonitoringDone ==
    /\ command.pc = "stop_waiting"
    /\ Quiet
    /\ loops[command.task].pc = "ended"
    /\ monitoring_groups' = monitoring_groups \ {MonitorToken}
    /\ command' = IdleCommand
    /\ UNCHANGED <<program_vars, monitoring_tasks, loops, head, dispatched_block>>

\* The first run of a task, or its resumption after asyncio.sleep(60): the
\* task is registered in monitoring_tasks (first run) and reads the head.  A
\* rate-limit error on the first try leads to the sleep, every other failure
\* ends the task.
LoopBegin(l, outcome) ==
    /\ loops[l].pc \in {"created", "start_backoff"}
    /\ ~loops[l].cancel
    /\ MayRun(l)
    /\ LET registered == IF loops[l].pc = "created"
                         THEN DictSet(monitoring_tasks, MonitorToken, l)
                         ELSE monitoring_tasks
       IN  CASE outcome = "ok" ->
                   /\ loops' = [loops EXCEPT ![l].pc = "poll", ![l].latest_block = head]
                   /\ monitoring_tasks' = registered
              [] outcome = "rate_limit" /\ loops[l].pc = "created" ->
                   /\ loops' = [loops EXCEPT ![l].pc = "start_backoff"]
                   /\ monitoring_tasks' = registered
              [] OTHER ->
                   /\ loops' = [loops EXCEPT ![l].pc = "ended"]
                   /\ monitoring_tasks' = DictDel(registered, MonitorToken)
    /\ UNCHANGED <<program_vars, monitoring_groups, command, head, dispatched_block>>

\* "while token_key in monitoring_groups" is false: the task ends.
LoopExit(l) ==
    /\ loops[l].pc = "poll"
    /\ MonitorToken \notin monitoring_groups
    /\ loops' = [loops EXCEPT ![l].pc = "ended"]
    /\ TaskEnded
    /\ UNCHANGED <<program_vars, monitoring_groups, command, head, dispatched_block>>

\* One pass of the while loop up to the chunk loop.  The heads of this
\* specification are below max_blocks_per_call and skip_threshold: a span is
\* one chunk and is never skipped.
LoopPoll(l, outcome) ==
    /\ loops[l].pc = "poll"
    /\ MonitorToken \in monitoring_groups
    /\ CASE outcome = "rate_limit" -> UNCHANGED loops
         [] outcome = "error" -> loops' = [loops EXCEPT ![l].pc = "sleep"]
         [] OTHER ->
              loops' = [loops EXCEPT ![l].current_block = head,
                                     ![l].pc = IF head > loops[l].latest_block
                                               THEN "fetch" ELSE "sleep"]
    /\ UNCHANGED <<program_vars, monitoring_groups, monitoring_tasks, command, head,
                   dispatched_block>>

\* The chunk of the span when its fetch returns no logs (the Swap query and
\* the fallback are empty) or raises an error that is not a rate-limit
\* error: the chunk is counted, latest_block = current_block, and the task
\* sleeps; on a rate-limit error it sleeps 30 seconds to fetch again.
LoopFetch(l, outcome) ==
    /\ loops[l].pc = "fetch"
    /\ IF outcome = "rate_limit"
       THEN loops' = [loops EXCEPT ![l].pc = "fetch_backoff"]
       ELSE loops' = [loops EXCEPT ![l].pc = "sleep",
                                   ![l].latest_block = loops[l].current_block]
    /\ UNCHANGED <<program_vars, monitoring_groups, monitoring_tasks, command, head,
                   dispatched_block>>

\* The chunk of the span when the Swap query returns logs, the first of them
\* of block first and the last of block last: they are dispatched in that
\* order, and the task is suspended in the awaits of the dispatch.
LoopFetchLogs(l, first, last) ==
    /\ loops[l].pc = "fetch"
    /\ loops[l].latest_block + 1 <= first
    /\ first <= last
    /\ last <= loops[l].current_block
    /\ dispatched_block' = last
    /\ loops' = [loops EXCEPT ![l].pc = "dispatch"]
    /\ UNCHANGED <<program_vars, monitoring_groups, monitoring_tasks, command, head>>

\* A suspended task resumes: after the dispatch of the last log of the span
\* "latest_block = current_block" and the sleep of the polling interval,
\* after asyncio.sleep(30) the chunk loop, after the other sleeps the while
\* loop.
LoopResume(l) ==
    /\ loops[l].pc \in {"sleep", "fetch_backoff", "dispatch"}
    /\ ~loops[l].cancel
    /\ MayRun(l)
    /\ LET waited == IF \/ MonitorToken \in monitoring_groups
                        \/ loops[l].pc = "dispatch"
                        \/ loops[l].waits = 2
                     THEN loops[l].waits ELSE loops[l].waits + 1
       IN  loops' =
             [loops EXCEPT
                ![l].waits = waited,
                ![l].pc = CASE loops[l].pc = "sleep" -> "poll"
                            [] loops[l].pc = "fetch_backoff" -> "fetch"
                            [] OTHER -> "sleep",
                ![l].latest_block = IF loops[l].pc = "dispatch"
                                    THEN loops[l].current_block ELSE @]
    /\ UNCHANGED <<program_vars, monitoring_groups, monitoring_tasks, command, head,
                   dispatched_block>>

\* A cancelled task resumes: CancelledError is raised at its await and the
\* task ends.
LoopCancelled(l) ==
    /\ loops[l].pc \in AwaitPcs
    /\ loops[l].cancel
    /\ MayRun(l)
    /\ loops' = [loops EXCEPT ![l].pc = "ended"]
    /\ TaskEnded
    /\ UNCHANGED <<program_vars, monitoring_groups, command, head, dispatched_block>>

\* Specification of the commands and the tasks they create.
NextControl ==
    \/ ChainAdvance
    \/ StartMonitoring
    \/ \E l \in Loops : StartMonitoringCreate(l)
    \/ StopMonitoring
    \/ StopMonitoringDone
    \/ \E l \in Loops, o \in CallOutcomes : LoopBegin(l, o)
    \/ \E l \in Loops : LoopExit(l)
    \/ \E l \in Loops, o \in CallOutcomes : LoopPoll(l, o)
    \/ \E l \in Loops, o \in CallOutcomes : LoopFetch(l, o)
    \/ \E l \in Loops, first \in 0..MaxControlHead, last \in 0..MaxControlHead :
           LoopFetchLogs(l, first, last)
    \/ \E l \in Loops : LoopResume(l)
    \/ \E l \in Loops : LoopCancelled(l)

SpecControl == Init /\ [][NextControl]_vars

\* ------------------------------------------------------------ price cache
\* CACHE_DURATION of config.py is 60 seconds; the clock of the model counts
\* half minutes.
CACHE_DURATION == 2

\* What eth_usd() and get_emp_price_from_pool() return: a price, or None
\* when the request failed.
FetchedPrices == {None} \cup EthPrices

\* "if eth_price:" for a price or None
Truthy(x) == x # None /\ x # 0

\* get_cached_prices whose cache is still valid at the age of CACHE_DURATION.
get_cached_prices_ttl_inclusive(cache, timestamp, current_time, token_symbol, eth_price, emp_price) ==
    IF current_time - timestamp <= CACHE_DURATION /\ cache # EmptyDict
    THEN [price_cache |-> cache,
          price_cache_timestamp |-> timestamp,
          prices |-> IF token_symbol = "T"
                     THEN <<0, cache.eth_usd_price>>
                     ELSE <<cache.emp_usd_price, cache.eth_usd_price>>,
          fetched |-> FALSE]
    ELSE LET eth_usd == IF Truthy(eth_price) THEN eth_price ELSE 0
             emp_usd == IF token_symbol # "T" /\ Truthy(emp_price) THEN emp_price ELSE 0
         IN  [price_cache |-> [emp_usd_price |-> emp_usd, eth_usd_price |-> eth_usd],
              price_cache_timestamp |-> current_time,
              prices |-> IF token_symbol = "T" THEN <<0, eth_usd>> ELSE <<emp_usd, eth_usd>>,
              fetched |-> TRUE]

\* get_cached_prices(token_symbol) at time current_time, eth_price and
\* emp_price being what eth_usd() and get_emp_price_from_pool() return if
\* they are called: the new price_cache and price_cache_timestamp, the tuple
\* returned, and whether the prices were fetched.
get_cached_prices(cache, timestamp, current_time, token_symbol, eth_price, emp_price) ==
    IF current_time - timestamp < CACHE_DURATION /\ cache # EmptyDict
    THEN [price_cache |-> cache,
          price_cache_timestamp |-> timestamp,
          prices |-> IF token_symbol = "T"
                     THEN <<0, cache.eth_usd_price>>
                     ELSE <<cache.emp_usd_price, cache.eth_usd_price>>,
          fetched |-> FALSE]
    ELSE LET eth_usd == IF Truthy(eth_price) THEN eth_price ELSE 0
             emp_usd == IF token_symbol # "T" /\ Truthy(emp_price) THEN emp_price ELSE 0
         IN  [price_cache |-> [emp_usd_price |-> emp_usd, eth_usd_price |-> eth_usd],
              price_cache_timestamp |-> current_time,
              prices |-> IF token_symbol = "T" THEN <<0, eth_usd>> ELSE <<emp_usd, eth_usd>>,
              fetched |-> TRUE]

\* What process_swap_event puts into its result for a log with amounts and a
\* token order: the direction, and in the message of a BUY or SELL the two
\* amounts, total_usd and price_per_token.
classified_swap(event, token_order, eth_usd_price) ==
    LET amounts == event_amounts(event)
        direction == process_swap_event(event, token_order, eth_usd_price)[2]
        eth_amount == Abs(eth_amount_raw(amounts, token_order))
    IN  IF direction \in {"BUY", "SELL"}
        THEN [direction |-> direction,
              tracked_token_amount |-> Abs(tracked_token_amount_raw(amounts, token_order)),
              eth_amount |-> eth_amount,
              total_usd |-> eth_amount * eth_usd_price,
              price_per_token |-> price_per_token(amounts, token_order, eth_usd_price)]
        ELSE [NoClassified EXCEPT !.direction = direction]

\* time.time() moves on.
ClockTick ==
    /\ now < MaxClock
    /\ now' = now + 1
    /\ UNCHANGED <<core_vars, control_vars, price_cache, price_cache_timestamp, price_ret,
                   last_good, first_swap, last_swap>>

\* The effect of a get_cached_prices call on the cache and on its history.
CachedPricesCall(token_symbol, eth_price, emp_price) ==
    LET r == get_cached_prices(price_cache, price_cache_timestamp, now, token_symbol,
                               eth_price, emp_price)
    IN  /\ price_cache' = r.price_cache
        /\ price_cache_timestamp' = r.price_cache_timestamp
        /\ price_ret' = [token_symbol |-> token_symbol, prices |-> r.prices,
                         fetched |-> r.fetched]
        /\ last_good' = IF r.fetched /\ Truthy(eth_price) THEN eth_price ELSE last_good

\* A caller other than the classifier calls get_cached_prices.
GetCachedPrices(token_symbol, eth_price, emp_price) ==
    /\ CachedPricesCall(token_symbol, eth_price, emp_price)
    /\ UNCHANGED <<core_vars, control_vars, now, first_swap, last_swap>>

\* process_swap_event on the log of swap_in: a log without amounts or token
\* order returns before the prices are read; otherwise
\* get_cached_prices("EMP") gives the ETH price of the message.
ClassifyWithCache(eth_price, emp_price) ==
    LET token_order == get_token_order(swap_in.pool, TrackedAddress)
        r == get_cached_prices(price_cache, price_cache_timestamp, now, "EMP",
                               eth_price, emp_price)
        reads_prices == /\ swap_in.event.kind \in {"args", "raw"}
                        /\ event_amounts(swap_in.event).ok
                        /\ token_order # NoOrder
        outcome == classified_swap(swap_in.event, token_order,
                                   IF reads_prices THEN r.prices[2] ELSE 0)
    IN  /\ swap_in.event.kind # "none"
        /\ IF reads_prices
           THEN CachedPricesCall("EMP", eth_price, emp_price)
           ELSE UNCHANGED <<price_cache, price_cache_timestamp, price_ret, last_good>>
        /\ last_swap' = outcome
        /\ first_swap' = IF first_swap = NoClassified THEN outcome ELSE first_swap
        /\ UNCHANGED <<core_vars, control_vars, now>>

\* The logs the specification SpecPrices classifies: the decoded Swap logs.
PriceInputs ==
    {i \in ClassifierInputs :
        /\ i.event.kind = "args"
        /\ i.eth_usd_price = 0
        /\ i.send_transaction_messages}

InitPrices == InitProgram /\ swap_in \in PriceInputs

\* Specification of the price cache: one log is classified again and again
\* while time passes and the cache is refreshed, with any outcome of the
\* price requests.
NextPrices ==
    \/ ClockTick
    \/ \E sym \in {"EMP", "T"}, e \in FetchedPrices, p \in FetchedPrices :
           GetCachedPrices(sym, e, p)
    \/ \E e \in FetchedPrices, p \in FetchedPrices : ClassifyWithCache(e, p)

SpecPrices == InitPrices /\ [][NextPrices]_vars

\* ----------------------------------------------------------- buy-only mode
\* The directions process_swap_event returns for a log with amounts.
Directions == {"BUY", "SELL", "SWAP", "UNKNOWN"}

\* handle_buy_only_betting_for_transaction without its direction check.
handle_buy_only_any_direction(k, t, transaction_price, direction, derived) ==
    handle_betting_for_transaction(k, t, transaction_price, direction, derived)

\* handle_buy_only_betting_for_transaction from its entry to its first await
\* (or return): it returns for every direction but BUY, and goes on as
\* handle_betting_for_transaction does: the price check, the resolution, the
\* two messages and the new round.
handle_buy_only_betting_for_transaction(k, t, transaction_price, direction, derived) ==
    IF direction # "BUY"
    THEN /\ task' = [task EXCEPT ![k] = IdleTask]
         /\ ret' = DoneRet(t, transaction_price, direction, derived, "not a buy")
         /\ UNCHANGED <<active_bets, user_stats, bet_log, rounds_opened,
                        rounds_resolved, valid_ticks>>
    ELSE handle_buy_only_any_direction(k, t, transaction_price, direction, derived)

\* A caller feeds a price and a direction to
\* handle_buy_only_betting_for_transaction.
HandleBuyOnlyCall(k, t, p, direction) ==
    /\ task[k].pc = "idle"
    /\ UNCHANGED elsewhere
    /\ ticks < MaxTicks
    /\ ticks' = ticks + 1
    /\ handle_buy_only_betting_for_transaction(k, t, p, direction, p)
    /\ UNCHANGED <<processed_transactions, today, accepted_bets, classified, events, bet_calls>>

\* process_transaction_event_buy_only from its entry to its first await: the
\* dedup step, the classification, the unpacking of its result and, without
\* any message, await asyncio.sleep(1).
ProcessTransactionEventBuyOnly(k, t, event, token_order, eth_usd_price) ==
    /\ task[k].pc = "idle"
    /\ events < MaxEvents
    /\ events' = events + 1
    /\ IF already_processed(processed_transactions, t, event.transactionHash)
       THEN /\ ret' = [op |-> "process_transaction_event", token |-> t, user |-> "",
                       price |-> None, ok |-> FALSE, msg |-> "skipped"]
            /\ UNCHANGED <<processed_transactions, task, classified>>
       ELSE LET result == process_swap_event(event, token_order, eth_usd_price)
                direction == result[2]
                known == event.kind \in {"args", "raw"}
                derived == IF known /\ event_amounts(event).ok /\ token_order # NoOrder
                           THEN price_per_token(event_amounts(event), token_order,
                                                eth_usd_price)
                           ELSE None
            IN  /\ processed_transactions' =
                       add_processed(processed_transactions, t, event.transactionHash)
                /\ classified' = [classified EXCEPT ![t][event.transactionHash] = @ + 1]
                /\ task' = [task EXCEPT ![k] =
                       [pc |-> "pteb_sleep", token |-> t, price |-> unpack_price(result),
                        direction |-> direction, derived |-> derived, outcome |-> ""]]
                /\ ret' = [op |-> "classify", token |-> t, user |-> "",
                           price |-> derived, ok |-> (direction \in {"BUY", "SELL"}),
                           msg |-> direction]
    /\ UNCHANGED <<active_bets, user_stats, today, bet_log, accepted_bets, rounds_opened,
                   rounds_resolved, valid_ticks, ticks, bet_calls>>
    /\ UNCHANGED elsewhere

\* asyncio.sleep(1) is over: await handle_buy_only_betting_for_transaction(
\* token_key, price_per_token, group_id, bot, direction)
PteBuyOnlySleepDone(k) ==
    /\ task[k].pc = "pteb_sleep"
    /\ UNCHANGED elsewhere
    /\ handle_buy_only_betting_for_transaction(k, task[k].token, task[k].price,
                                               task[k].direction, task[k].derived)
    /\ UNCHANGED <<processed_transactions, today, accepted_bets, classified, ticks,
                   events, bet_calls>>

\* The logs of the specification SpecBuyOnly: the decoded Swap logs of one
\* transaction.
BuyOnlyLogs == {e \in Events : e.kind = "args" /\ e.transactionHash = "0xaa"}

\* Specification of the buy-only mode: one monitor task hands logs to
\* process_transaction_event_buy_only, and prices with a direction are fed
\* to handle_buy_only_betting_for_transaction, while bets are placed.
NextBuyOnly ==
    \/ \E t \in RoundTokens, u \in StatsUsers, c \in Choices : PlaceBet(t, u, c)
    \/ \E t \in RoundTokens, p \in TickPrices, d \in Directions :
           HandleBuyOnlyCall("loop1", t, p, d)
    \/ \E t \in RoundTokens, e \in BuyOnlyLogs, o \in TokenOrders :
           ProcessTransactionEventBuyOnly("loop1", t, e, o, MaxEthPrice)
    \/ \E k \in Tasks : PteBuyOnlySleepDone(k)
    \/ \E k \in Tasks : SendResultOk(k)
    \/ \E k \in Tasks : SendResultFail(k)
    \/ \E k \in Tasks : SleepDone(k)
    \/ \E k \in Tasks : SendNewDone(k)

SpecBuyOnly == Init /\ [][NextBuyOnly]_vars

\* ------------------------------------------------------------- leaderboard
\* get_daily_leaderboard with the order of the list.  The participants of
\* this specification are the numbers 1..n, numbered in the order in which
\* their entries were inserted into the dict user_stats, which is the order
\* of user_stats.items().
LEADERBOARD_SIZE == 10

\* The sort in ascending order of daily_points.
sorted_users_ascending(us) ==
    LET Rank(u) == 1 + Cardinality({v \in DOMAIN us :
                         \/ us[v].daily_points < us[u].daily_points
                         \/ us[v].daily_points = us[u].daily_points /\ v < u})
    IN  [i \in 1..Cardinality(DOMAIN us) |-> CHOOSE u \in DOMAIN us : Rank(u) = i]

\* sorted(user_stats.items(), key=daily_points, reverse=True): the sort is
\* stable, so a participant stands behind those with more points and behind
\* those with equal points whose entries were inserted earlier.
sorted_users(us) ==
    LET Rank(u) == 1 + Cardinality({v \in DOMAIN us :
                         \/ us[v].daily_points > us[u].daily_points
                         \/ us[v].daily_points = us[u].daily_points /\ v < u})
    IN  [i \in 1..Cardinality(DOMAIN us) |-> CHOOSE u \in DOMAIN us : Rank(u) = i]

\* get_daily_leaderboard after its reset_daily_stats() call, us being the
\* dict the reset left: the sort, "No bets placed today!" for an empty list,
\* else one entry for each of sorted_users[:10] with daily_points > 0.
daily_leaderboard(us) ==
    LET sorted == sorted_users(us)
        top == SubSeq(sorted, 1, IF Len(sorted) < LEADERBOARD_SIZE THEN Len(sorted)
                                 ELSE LEADERBOARD_SIZE)
        HasPoints(u) == us[u].daily_points > 0
    IN  IF DOMAIN us = {}
        THEN [text |-> "No bets placed today!", entries |-> <<>>]
        ELSE [text |-> "board", entries |-> SelectSeq(top, HasPoints)]

\* Somebody asks for the leaderboard.
GetSortedLeaderboard ==
    /\ user_stats' = reset_daily_stats(user_stats, today)
    /\ leaderboard' = daily_leaderboard(user_stats')
    /\ report' = [u \in {leaderboard'.entries[i] : i \in DOMAIN leaderboard'.entries}
                     |-> Shown(user_stats'[u])]
    /\ ret' = [NoRet EXCEPT !.op = "get_daily_leaderboard"]
    /\ UNCHANGED <<active_bets, processed_transactions, today, task, history,
                   classifier_vars, monitor_vars, control_vars, price_vars>>

\* The stats entry of a participant who placed and won points bets, last
\* reset on the date given: each won bet is counted by record_bet_for_user
\* and by award_points_to_user.
BoardEntry(points, date) ==
    [daily_points |-> points, total_bets |-> 2 * points, correct_bets |-> points,
     last_reset_date |-> date]

\* The dicts user_stats that load_data may find in the stats file: none, one
\* of three participants, and one with one participant more than the
\* leaderboard lists, in which the participants 4 to 7 have the same points
\* and so have the participants 8 to 11.  The entries of some of the first
\* three, or all entries, date from the day before.
BoardStats ==
    LET Group(u) == IF u <= 3 THEN u ELSE IF u <= 7 THEN 4 ELSE 5
        Boards(n) ==
            {[u \in 1..n |-> BoardEntry(points[Group(u)],
                                        IF u \in stale THEN today - 1 ELSE today)] :
                 points \in [1..5 -> 0..MaxBoardPoints],
                 stale \in (SUBSET (1..3)) \cup {1..n}}
    IN  {EmptyDict} \cup Boards(3) \cup Boards(LEADERBOARD_SIZE + 1)

InitLeaderboard == InitMemory /\ swap_in = NoSwap /\ user_stats \in BoardStats

\* Specification of the leaderboard: get_daily_leaderboard on every dict of
\* BoardStats, on the day of the last reset and after midnight.
NextLeaderboard ==
    \/ GetSortedLeaderboard
    \/ NextDay

SpecLeaderboard == InitLeaderboard /\ [][NextLeaderboard]_vars

\* ------------------------------------------------------------- properties
\* A counter of a participant, 0 while the participant has no stats entry.
StatOf(us, u, field) == IF u \in DOMAIN us THEN us[u][field] ELSE 0

\* The pcs at which a handler has removed the round and not yet opened the next.
WindowPcs == {"hb_send_result", "hb_sleep"}

\* C1: a tick resolves the active round and opens the next one as one atomic
\* step: while a handler is between the resolution of a token's round and the
\* opening of its successor, no place_bet call for that token is answered
\* 'No active betting round'.
C1_TickIsAtomic ==
    \A k \in Tasks :
        task[k].pc \in WindowPcs =>
            ~(ret.op = "place_bet" /\ ret.token = task[k].token
              /\ ret.msg = "No active betting round")

\* C2: when process_transaction_event has handled a log classified BUY or SELL
\* whose derived price per token is positive, a round with that opening price
\* is active for the token.
C2_PriceReachesRound ==
    (ret.op = "process_transaction_event" /\ ret.ok) =>
        /\ ret.token \in DOMAIN active_bets
        /\ active_bets[ret.token].price = ret.price

\* C3: whenever no handler is in flight, the number of rounds opened equals
\* the number of ticks with a valid price that were processed.
C3_RoundPerValidTick ==
    (\A k \in Tasks : task[k].pc = "idle") => rounds_opened = valid_ticks

\* C4: a participant has at most one accepted bet in a round, and the choice
\* recorded in the round is the one of the first accepted place_bet call.
C4_OneBetPerRound ==
    \A t \in Tokens, u \in Users :
        /\ Len(bet_log[t][u]) <= 1
        /\ t \in DOMAIN active_bets =>
              /\ u \in DOMAIN active_bets[t].bets <=> Len(bet_log[t][u]) = 1
              /\ u \in DOMAIN active_bets[t].bets =>
                    active_bets[t].bets[u] = bet_log[t][u][1]

\* C4 witness: a second place_bet of a participant was rejected while the
\* round holds the participant's first bet.
C4_Witness ==
    /\ ret.op = "place_bet" /\ ~ret.ok /\ ret.msg = "tried to bet again"
    /\ ret.token \in DOMAIN active_bets
    /\ ret.user \in DOMAIN active_bets[ret.token].bets

\* C5: a place_bet call for a token without an active round, or by a
\* participant who already has a bet in the round, fails, and a failed
\* place_bet leaves the rounds and every participant's stats unchanged.
C5_FailedBetChangesNothing ==
    [][bet_calls' = bet_calls + 1 =>
        LET t == ret'.token
            u == ret'.user
        IN  /\ (t \notin DOMAIN active_bets \/ u \in DOMAIN active_bets[t].bets)
                  => ~ret'.ok
            /\ ~ret'.ok => UNCHANGED <<active_bets, user_stats>>
            /\ ret'.ok => /\ active_bets' # active_bets
                          /\ StatOf(user_stats', u, "total_bets")
                                = StatOf(user_stats, u, "total_bets") + 1]_vars

\* C5 witness: place_bet failed for lack of an active round when some
\* participant already had stats.
C5_Witness ==
    /\ ret.op = "place_bet" /\ ~ret.ok /\ ret.msg = "No active betting round"
    /\ ret.user \in DOMAIN user_stats

\* C6: when a round with opening price p is resolved at new_price, exactly the
\* bettors of HIGHER (if new_price > p) or of LOWER (if new_price < p) gain +1
\* daily_points and +1 correct_bets; every other participant keeps both.
C6_WinnersScored ==
    [][rounds_resolved' = rounds_resolved + 1 =>
        LET t == ret'.token
            new_price == ret'.price
            p == active_bets[t].price
            bets == active_bets[t].bets
        IN  \A u \in Users :
                LET won == /\ u \in DOMAIN bets
                           /\ \/ bets[u] = "higher" /\ new_price > p
                              \/ bets[u] = "lower" /\ new_price < p
                    gain == IF won THEN 1 ELSE 0
                IN  /\ StatOf(user_stats', u, "daily_points")
                          = StatOf(user_stats, u, "daily_points") + gain
                    /\ StatOf(user_stats', u, "correct_bets")
                          = StatOf(user_stats, u, "correct_bets") + gain]_vars

\* C6 witness: a round was just resolved with one winner and one loser.
C6_Witness ==
    /\ ret.op = "resolve"
    /\ \E u1, u2 \in Users :
          /\ accepted_bets[u1] = 1 /\ accepted_bets[u2] = 1
          /\ StatOf(user_stats, u1, "correct_bets") = 1
          /\ StatOf(user_stats, u1, "daily_points") = 1
          /\ StatOf(user_stats, u2, "correct_bets") = 0
          /\ StatOf(user_stats, u2, "daily_points") = 0

\* C7: total_bets of every participant equals the number of that
\* participant's accepted bets.
C7_TotalBetsCountsAcceptedBets ==
    \A u \in Users : StatOf(user_stats, u, "total_bets") = accepted_bets[u]

\* C8: a tick whose price equals the opening price of the active round changes
\* no participant's stats, and when its handler returns the token has a new
\* round opened at that same price.
C8_UnchangedTick ==
    [][/\ (rounds_resolved' = rounds_resolved + 1
            /\ active_bets[ret'.token].price = ret'.price)
          => UNCHANGED user_stats
       /\ \A k \in Tasks :
            (task[k].pc \in BettingPcs /\ task[k].outcome = "same" /\ task'[k].pc = "idle")
              => /\ task[k].token \in DOMAIN active_bets'
                 /\ active_bets'[task[k].token].price = task[k].price]_vars

\* C9: a round is resolved at most once and an accepted bet is scored at most
\* once: no participant has more correct bets or points than accepted bets,
\* and no more rounds were resolved than opened.
C9_ResolvedAtMostOnce ==
    /\ rounds_resolved <= rounds_opened
    /\ \A u \in Users :
          /\ StatOf(user_stats, u, "correct_bets") <= accepted_bets[u]
          /\ StatOf(user_stats, u, "daily_points") <= accepted_bets[u]

\* C9 witness: a second tick for a token arrived while another handler had
\* removed the token's round and not yet opened the next; a bet of that round
\* was scored.
C9_Witness ==
    /\ ret.op = "open"
    /\ \E k \in Tasks : task[k].pc \in WindowPcs /\ task[k].token = ret.token
    /\ \E u \in Users : StatOf(user_stats, u, "correct_bets") = 1

\* C10: a transaction hash is classified at most once per token, and exactly
\* the classified hashes are in processed_transactions of the token.
C10_DispatchedOnce ==
    \A t \in Tokens, h \in Hashes :
        /\ classified[t][h] <= 1
        /\ classified[t][h] = 1 <=> h \in processed_transactions[t]

\* C10 witness: a log whose hash was already processed for the token was
\* handed to process_transaction_event again and skipped.
C10_Witness ==
    /\ ret.op = "process_transaction_event" /\ ret.msg = "skipped"
    /\ \E h \in Hashes : classified[ret.token][h] = 1

\* The stats reads.
ReadOps == {"get_user_stats", "get_daily_leaderboard"}

\* C11: a stats read (get_user_stats or get_daily_leaderboard) leaves every
\* entry whose last_reset_date is today as it is; an entry with an older
\* last_reset_date gets daily_points = 0 and last_reset_date = today, keeps
\* total_bets and correct_bets, and is shown with 0 points by get_user_stats
\* and not listed by the leaderboard.
C11_ReadAppliesDailyReset ==
    [][ret'.op \in ReadOps =>
        /\ DOMAIN user_stats' = DOMAIN user_stats
        /\ \A u \in DOMAIN user_stats :
              LET old == user_stats[u]
                  new == user_stats'[u]
                  stale == old.last_reset_date # today
              IN  /\ new.total_bets = old.total_bets
                  /\ new.correct_bets = old.correct_bets
                  /\ ~stale => new = old
                  /\ stale => new.daily_points = 0 /\ new.last_reset_date = today
                  /\ (ret'.op = "get_user_stats" /\ ret'.user = u) =>
                        /\ u \in DOMAIN report'
                        /\ report'[u].daily_points = IF stale THEN 0 ELSE old.daily_points
                        /\ report'[u].total_bets = old.total_bets
                        /\ report'[u].correct_bets = old.correct_bets
                  /\ (ret'.op = "get_daily_leaderboard" /\ stale) => u \notin DOMAIN report']_vars

\* C11 witness: get_user_stats on a later date showed 0 points for a
\* participant who had won a bet, and the entry carries the new date.
C11_Witness ==
    /\ ret.op = "get_user_stats"
    /\ today >= 1
    /\ ret.user \in DOMAIN user_stats
    /\ ret.user \in DOMAIN report
    /\ report[ret.user].daily_points = 0
    /\ user_stats[ret.user].daily_points = 0
    /\ user_stats[ret.user].correct_bets >= 1
    /\ user_stats[ret.user].last_reset_date = today

\* C12: every step that changes a participant's stats entry applies the daily
\* reset first: the entry it leaves carries today's date, and the
\* daily_points of an entry that was stale hold at most the point just awarded.
C12_MutationAppliesReset ==
    [][\A u \in DOMAIN user_stats :
          (user_stats'[u] # user_stats[u]) =>
              /\ user_stats'[u].last_reset_date = today
              /\ user_stats[u].last_reset_date # today => user_stats'[u].daily_points <= 1]_vars

\* The log of swap_in has the amounts of a swap, read or decoded.
HasAmounts == swap_in.event.kind \in {"args", "raw"} /\ event_amounts(swap_in.event).ok

\* The pool of swap_in holds the tracked token in slot 0, resp. slot 1.
TrackedIsToken0 == swap_in.pool.readable /\ lower(swap_in.pool.token0) = lower(TrackedAddress)

TrackedIsToken1 ==
    /\ swap_in.pool.readable
    /\ ~TrackedIsToken0
    /\ lower(swap_in.pool.token1) = lower(TrackedAddress)

\* C13: for a log with swap amounts from a pool holding the tracked token, the
\* tracked-token delta is amount0 when the tracked token is token0 and amount1
\* when it is token1, and the direction returned is BUY iff the delta is
\* negative, SELL iff it is positive, and neither when it is zero.
C13_DirectionFromTrackedDelta ==
    (swap_out # <<>> /\ HasAmounts /\ (TrackedIsToken0 \/ TrackedIsToken1)) =>
        LET amounts == event_amounts(swap_in.event)
            delta == IF TrackedIsToken0 THEN amounts.amount0 ELSE amounts.amount1
        IN  /\ swap_out[2] = "BUY" <=> delta < 0
            /\ swap_out[2] = "SELL" <=> delta > 0
            /\ delta = 0 => swap_out[2] \notin {"BUY", "SELL"}

\* C13 witness: a raw log of a pool with the tracked token as token1, decoded
\* to a negative amount1 and a positive amount0, was classified BUY.
C13_Witness ==
    /\ swap_out # <<>> /\ swap_out[2] = "BUY"
    /\ swap_in.event.kind = "raw"
    /\ TrackedIsToken1
    /\ event_amounts(swap_in.event).amount1 < 0
    /\ event_amounts(swap_in.event).amount0 > 0

\* C14: a log whose two amounts have the same sign is classified neither BUY
\* nor SELL, and opens or resolves no round.
C14_SameSignIsUnknown ==
    (swap_out # <<>> /\ HasAmounts) =>
        LET amounts == event_amounts(swap_in.event)
        IN  (amounts.amount0 * amounts.amount1 > 0) =>
                /\ swap_out[2] \notin {"BUY", "SELL"}
                /\ rounds_opened = 0 /\ rounds_resolved = 0

\* C15: a raw log with fewer than three topics, with a first topic that is not
\* the Swap signature, or with a payload shorter than five 32-byte fields
\* (320 hex characters) is classified neither BUY nor SELL, and opens or
\* resolves no round.
C15_NonSwapShapeIsUnknown ==
    (swap_out # <<>> /\ swap_in.event.kind = "raw") =>
        LET topics == swap_in.event.topics
            data == swap_in.event.data
        IN  (Len(topics) < 3 \/ topics[1] # SwapSignature \/ data.len < 320) =>
                /\ swap_out[2] \notin {"BUY", "SELL"}
                /\ rounds_opened = 0 /\ rounds_resolved = 0

\* C16: for a log with swap amounts from a pool whose token0 and token1 both
\* differ from the tracked token, or whose ordering cannot be read,
\* process_swap_event returns the direction UNKNOWN and no price, and no round
\* is opened or resolved for it.
C16_NoOrderIsUnknown ==
    (swap_out # <<>> /\ HasAmounts /\ ~TrackedIsToken0 /\ ~TrackedIsToken1) =>
        /\ swap_out[2] = "UNKNOWN"
        /\ Len(swap_out) = 2
        /\ \A k \in Tasks : task[k].price = None
        /\ active_bets = EmptyDict
        /\ rounds_opened = 0 /\ rounds_resolved = 0

\* C16 witness: the handler has returned for a decoded swap of a readable pool
\* that does not hold the tracked token, classified UNKNOWN.
C16_Witness ==
    /\ swap_out # <<>> /\ swap_out[2] = "UNKNOWN"
    /\ HasAmounts
    /\ swap_in.pool.readable
    /\ ret.op = "process_transaction_event" /\ ret.msg = "invalid price"
    /\ \A k \in Tasks : task[k].pc = "idle"

\* C17: a call of handle_betting_for_transaction with the price None or a
\* price <= 0 leaves the rounds, their bets and all stats unchanged, and every
\* active round has an opening price > 0.
C17_InvalidPriceChangesNothing ==
    /\ [](\A t \in DOMAIN active_bets : active_bets[t].price > 0)
    /\ [][\A k \in Tasks, t \in RoundTokens, p \in TickPrices :
            ((p = None \/ p <= 0) /\ HandleBettingCall(k, t, p)) =>
                UNCHANGED <<active_bets, user_stats, rounds_opened, rounds_resolved>>]_vars

\* C17 witness: a tick with price 0 was rejected while the token's round held a bet.
C17_Witness ==
    /\ ret.op = "handle_betting_for_transaction" /\ ret.msg = "invalid price"
    /\ ret.price = 0
    /\ ret.token \in DOMAIN active_bets
    /\ active_bets[ret.token].bets # EmptyDict

\* C18: a transaction message goes out to the display only for a log whose
\* direction is BUY or SELL.
C18_DisplayOnlyBuySell ==
    \A k \in Tasks :
        task[k].pc = "pte_send" => task[k].direction \in {"BUY", "SELL"}

\* C19: while the monitor backs off after a rate-limit error of the fetch of a
\* chunk, latest_block is the end block of the chunk before it (the block
\* before the start of the rate-limited chunk), and the next fetch starts at
\* the rate-limited chunk.
C19_CursorAtLastCompletedChunk ==
    mon_pc = "fetch_backoff" =>
        /\ latest_block = last_fetch.start_block - 1
        /\ start_block = last_fetch.start_block

\* C20: latest_block never passes a block of a chunk whose fetch failed with
\* an error that is not a rate-limit error.
C20_CursorBehindFailedChunk ==
    \A b \in error_blocks : latest_block < b

\* The positions at which the monitor loop is suspended in asyncio.sleep.
SuspendedPcs == {"start_backoff", "fetch_backoff", "sleep"}

\* C21: a step in which a log fetch is rate limited, on the Swap query or on
\* the fallback query, does not count the chunk: blocks_processed and the
\* span are unchanged and the monitor backs off before it fetches the same
\* range again.
C21_RateLimitedFetchNotCounted ==
    [][(   FetchRateLimited
        \/ \E found \in SUBSET Hashes : FetchFallback("rate_limit", found))
       => /\ mon_pc' = "fetch_backoff"
          /\ UNCHANGED <<blocks_processed, latest_block, current_block>>]_vars

\* C22: a rate-limit error of the head query leaves the monitor suspended in
\* a sleep before the next query, with latest_block unchanged.
C22_HeadRateLimitBacksOff ==
    [][PollFail("rate_limit") =>
          /\ mon_pc' \in SuspendedPcs
          /\ latest_block' = latest_block]_vars

\* C28: the fallback query of a chunk goes out with address = the pool
\* address, fromBlock = start_block and toBlock = end_block of the chunk.
C28_FallbackSameFilter ==
    [][\A o \in CallOutcomes, found \in SUBSET Hashes :
          FetchFallback(o, found) =>
              last_fallback'.request =
                  [address |-> pool_address, fromBlock |-> start_block,
                   toBlock |-> end_block]]_vars

\* C30: a head query that finds new blocks either skips forward, when the
\* span exceeds the skip threshold of the network: latest_block becomes the
\* head minus 2, no log query is made and the next step is a new head query;
\* or it starts the chunks at latest_block + 1 with latest_block unchanged.
\* Every log query starts above latest_block, and latest_block changes during
\* the chunks only when all blocks of the span are counted.
C30_SkipForwardRule ==
    /\ [][\A b \in Blocks :
             (Poll(b) /\ b > latest_block) =>
                 IF b - latest_block > skip_threshold(network(MonitorToken))
                 THEN /\ latest_block' = b - 2
                      /\ mon_pc' = "poll"
                      /\ UNCHANGED <<last_fetch, last_fallback>>
                 ELSE /\ latest_block' = latest_block
                      /\ mon_pc' = "fetch"
                      /\ blocks_processed' = 0
                      /\ UNCHANGED <<last_fetch, last_fallback>>]_vars
    /\ [][last_fetch' # last_fetch => last_fetch'.start_block > latest_block]_vars
    /\ [][(mon_pc \in {"fetch", "fetch_backoff"} /\ latest_block' # latest_block) =>
             /\ latest_block' = current_block
             /\ blocks_processed' = blocks_to_process]_vars

\* C30 witness: the monitor has skipped forward over more blocks than the
\* skip threshold and is back at the head query without a log query.
C30_Witness ==
    /\ ret = MonRet("skip_forward")
    /\ latest_block = current_block - 2
    /\ latest_block > skip_threshold(network(MonitorToken)) - 2
    /\ mon_pc = "poll"
    /\ last_fetch = NoFetch

\* The positions of a task that is inside the while loop of the monitor.
PollingPcs == {"poll", "fetch", "sleep", "fetch_backoff", "dispatch"}

\* C23: after the token is removed from monitoring_groups no task completes
\* a second sleep or backoff, and no task inside the while loop changes its
\* latest_block.
C23_StopObservedWithinOneInterval ==
    /\ [](\A l \in Loops : loops[l].waits <= 1)
    /\ [][\A l \in Loops :
             (MonitorToken \notin monitoring_groups /\ loops[l].pc \in PollingPcs)
                 => loops'[l].latest_block = loops[l].latest_block]_vars

\* C24: the first log of every fetch that dispatches logs is of a block not
\* below the block of the log dispatched last before it.
C24_DispatchInBlockOrder ==
    [][\A l \in Loops, first \in 0..MaxControlHead, last \in 0..MaxControlHead :
          LoopFetchLogs(l, first, last) => first >= dispatched_block]_vars

\* C25: at most one task is inside the while loop of the monitor of the token.
C25_OneLoopPerToken ==
    Cardinality({l \in Loops : loops[l].pc \in PollingPcs}) <= 1

\* C26: a task ends only when the token is not in monitoring_groups or the
\* task was cancelled, and while the token is in monitoring_groups and no
\* command is in progress some task is created and has not ended.
C26_NoTerminalStateWhileEnabled ==
    /\ [][\A l \in Loops :
             (loops[l].pc # "ended" /\ loops'[l].pc = "ended")
                 => (MonitorToken \notin monitoring_groups \/ loops[l].cancel)]_vars
    /\ []((MonitorToken \in monitoring_groups /\ command.pc = "idle")
             => \E l \in Loops : loops[l].pc \notin {"none", "ended"})

\* C27: once a refresh has obtained an ETH price, the cache holds the price
\* of the last refresh that obtained one, and get_cached_prices returns it.
C27_FailedRefreshKeepsCachedPrice ==
    last_good > 0 =>
        /\ price_cache.eth_usd_price = last_good
        /\ price_ret.prices[2] = last_good

\* C29: every classification of a log with amounts and token order gives
\* what the first classification of that log gave.
C29_ClassificationIsPure ==
    first_swap # NoClassified => last_swap = first_swap

\* A chunk whose Swap query succeeded: the logs it returned, or those of the
\* fallback after an empty answer, are dispatched and the chunk is counted.
OkFetch ==
    \/ \E found \in SUBSET Hashes : FetchOk(found)
    \/ \E o \in CallOutcomes, found \in {{}, Hashes} : FetchFallback(o, found)

\* C31: every Swap query that succeeds asks for a range of 1 to
\* max_blocks_per_call blocks that ends at or below the head of the span; the
\* first range of a span starts at latest_block + 1, a range that follows a
\* successful one starts one block above the end of that one, and
\* latest_block becomes the head exactly when the range ends at the head,
\* while the chunk loop goes on with latest_block unchanged below it.
C31_ChunksCoverSpan ==
    [][OkFetch =>
          LET q == last_fetch'
          IN  /\ q.outcome = "ok"
              /\ q.start_block <= q.end_block
              /\ q.end_block - q.start_block + 1 <= max_blocks_per_call(network(MonitorToken))
              /\ q.end_block <= current_block
              /\ blocks_processed = 0 => q.start_block = latest_block + 1
              /\ (blocks_processed > 0 /\ last_fetch.outcome = "ok")
                     => q.start_block = last_fetch.end_block + 1
              /\ q.end_block = current_block
                     => (latest_block' = current_block /\ mon_pc' = "sleep")
              /\ q.end_block < current_block
                     => (latest_block' = latest_block /\ mon_pc' = "fetch")]_vars

\* C31 witness: a span of more than max_blocks_per_call blocks without a
\* failed chunk is complete: its last range ended at the head, started above
\* the first chunk, and latest_block is the head.
C31_Witness ==
    /\ mon_pc = "sleep"
    /\ ret = MonRet("fetched")
    /\ last_fetch.outcome = "ok"
    /\ last_fetch.end_block = current_block
    /\ last_fetch.start_block > max_blocks_per_call(network(MonitorToken))
    /\ blocks_processed > max_blocks_per_call(network(MonitorToken))
    /\ latest_block = current_block
    /\ error_blocks = {}

\* C32: latest_block never decreases, the startup sets it to the head it
\* read, and inside the loop it changes only to a value that is at most the
\* head read last (current_block), so it never exceeds the largest head read.
C32_CursorMonotone ==
    /\ [][latest_block' >= latest_block]_vars
    /\ [][\A b \in Blocks : MonitorStart(b) => latest_block' = b]_vars
    /\ [][(mon_pc \notin {"start", "start_backoff"} /\ latest_block' # latest_block)
              => latest_block' <= current_block']_vars
    /\ [][current_block' # current_block => mon_pc = "poll"]_vars

\* C32 witness: the head query returned a block below latest_block and the
\* loop sleeps with latest_block where it was.
C32_Witness ==
    /\ mon_pc = "sleep"
    /\ ret = MonRet("no_new_block")
    /\ current_block < latest_block

\* C33: a get_cached_prices call made less than CACHE_DURATION after the last
\* refresh of a non-empty cache fetches nothing, leaves cache and timestamp as
\* they are and returns the cached prices (for "T" the cached ETH price next
\* to the token price 0); every other call fetches and sets the timestamp to
\* the time of the call.  The steps that change the cache, its timestamp
\* or the record of the last call are the get_cached_prices calls; a call that
\* changes none of them repeats the call before it.
C33_CacheTtl ==
    [][<<price_cache, price_cache_timestamp, price_ret>>' #
           <<price_cache, price_cache_timestamp, price_ret>> =>
          IF now - price_cache_timestamp < CACHE_DURATION /\ price_cache # EmptyDict
          THEN /\ ~price_ret'.fetched
               /\ UNCHANGED <<price_cache, price_cache_timestamp>>
               /\ price_ret'.prices[2] = price_cache.eth_usd_price
               /\ price_ret'.prices[1] = IF price_ret'.token_symbol = "T"
                                         THEN 0 ELSE price_cache.emp_usd_price
          ELSE /\ price_ret'.fetched
               /\ price_cache_timestamp' = now
               /\ price_cache' # EmptyDict]_vars

\* C33 witness: the cache was refreshed when the clock had reached
\* CACHE_DURATION, and a later call within the TTL was served from it.
C33_Witness ==
    /\ price_cache # EmptyDict
    /\ price_cache_timestamp >= CACHE_DURATION
    /\ now > price_cache_timestamp
    /\ now - price_cache_timestamp < CACHE_DURATION
    /\ ~price_ret.fetched
    /\ price_ret.token_symbol = "EMP"
    /\ price_ret.prices[2] = price_cache.eth_usd_price
    /\ price_cache.eth_usd_price > 0

\* C39: a get_cached_prices("T") call leaves the EMP price of a non-empty
\* cache as it is, and a get_cached_prices("EMP") call that follows a refresh
\* made by a "T" call within the TTL, while the pool has an EMP price, does
\* not return the EMP price 0.
C39_TalosRefreshKeepsEmpPrice ==
    /\ [][\A e \in FetchedPrices, p \in FetchedPrices :
             (GetCachedPrices("T", e, p) /\ price_cache # EmptyDict)
                 => price_cache'.emp_usd_price = price_cache.emp_usd_price]_vars
    /\ [][\A e \in FetchedPrices, p \in FetchedPrices :
             (/\ GetCachedPrices("EMP", e, p)
              /\ price_ret.token_symbol = "T" /\ price_ret.fetched
              /\ now - price_cache_timestamp < CACHE_DURATION
              /\ Truthy(p))
                 => price_ret'.prices[1] # 0]_vars

\* C40: a raw log that decodes gives as amount0 and amount1 the two's
\* complement reading of its first two words: a value between -2^(w-1) and
\* 2^(w-1) - 1 that is negative exactly when the top bit of the word is set
\* and that is congruent to the word modulo 2^w, w being WordBits.
C40_TwosComplement ==
    (swap_out # <<>> /\ swap_in.event.kind = "raw" /\ event_amounts(swap_in.event).ok) =>
        LET amounts == event_amounts(swap_in.event)
            data == swap_in.event.data
            half == 2 ^ (WordBits - 1)
            Signed(v, s) ==
                /\ s = hex_to_signed_int(v)
                /\ -half <= s /\ s <= half - 1
                /\ (s < 0) <=> (v \div half = 1)
                /\ s % (2 ^ WordBits) = v
                /\ v <= half - 1 => s = v
                /\ v > half - 1 => s = v - 2 ^ WordBits
        IN  Signed(data.word0, amounts.amount0) /\ Signed(data.word1, amounts.amount1)

\* C40 witness: a raw log was decoded whose first word has the top bit set
\* and whose second word has not: amount0 is negative, amount1 is the word.
C40_Witness ==
    /\ swap_out # <<>>
    /\ swap_in.event.kind = "raw"
    /\ event_amounts(swap_in.event).ok
    /\ swap_in.event.data.word0 = 2 ^ WordBits - 1
    /\ event_amounts(swap_in.event).amount0 = -1
    /\ swap_in.event.data.word1 = 1
    /\ event_amounts(swap_in.event).amount1 = 1

\* C34: get_daily_leaderboard resets every stale entry, then lists
\* participants in non-increasing order of daily_points, each at most once
\* and at most LEADERBOARD_SIZE of them: only participants with points, of
\* whom fewer than LEADERBOARD_SIZE have more points, and every participant
\* with points of whom fewer than LEADERBOARD_SIZE have as many or more; so
\* many are listed as have points, up to LEADERBOARD_SIZE.  It answers "No
\* bets placed today!" exactly when user_stats is empty.
C34_LeaderboardOrderAndCut ==
    [][GetSortedLeaderboard =>
          LET old == user_stats
              entries == leaderboard'.entries
              Listed == {entries[i] : i \in DOMAIN entries}
              Points(u) == IF old[u].last_reset_date # today THEN 0 ELSE old[u].daily_points
              Ahead(u) == {v \in DOMAIN old : Points(v) > Points(u)}
              NotBehind(u) == {v \in (DOMAIN old) \ {u} : Points(v) >= Points(u)}
              WithPoints == {u \in DOMAIN old : Points(u) > 0}
          IN  /\ DOMAIN user_stats' = DOMAIN old
              /\ \A u \in DOMAIN old :
                    /\ user_stats'[u].daily_points = Points(u)
                    /\ user_stats'[u].last_reset_date = today
              /\ \A i, j \in DOMAIN entries :
                    i < j => /\ Points(entries[i]) >= Points(entries[j])
                             /\ entries[i] # entries[j]
              /\ Len(entries) <= LEADERBOARD_SIZE
              /\ \A u \in Listed :
                    /\ u \in WithPoints
                    /\ Cardinality(Ahead(u)) < LEADERBOARD_SIZE
              /\ \A u \in WithPoints :
                    Cardinality(NotBehind(u)) < LEADERBOARD_SIZE => u \in Listed
              /\ Len(entries) = IF Cardinality(WithPoints) < LEADERBOARD_SIZE
                                THEN Cardinality(WithPoints) ELSE LEADERBOARD_SIZE
              /\ (leaderboard'.text = "No bets placed today!") <=> (DOMAIN old = {})]_vars

\* C34 witness: of LEADERBOARD_SIZE + 1 participants who all have points the
\* leaderboard lists LEADERBOARD_SIZE, the first with more points than the
\* last, and the participant left out has points.
C34_Witness ==
    /\ ret.op = "get_daily_leaderboard"
    /\ leaderboard.text = "board"
    /\ Cardinality(DOMAIN user_stats) = LEADERBOARD_SIZE + 1
    /\ \A u \in DOMAIN user_stats : user_stats[u].daily_points > 0
    /\ Len(leaderboard.entries) = LEADERBOARD_SIZE
    /\ user_stats[leaderboard.entries[1]].daily_points
           > user_stats[leaderboard.entries[LEADERBOARD_SIZE]].daily_points

\* C35: every step other than a bet that changes a round, its bets, the
\* stats or the count of rounds opened or resolved is a step of a task that
\* handles a BUY, so a handle_buy_only_betting_for_transaction call with any
\* other direction changes none of them, whatever the price; the handler
\* reached from a log that is not a BUY changes none of them; and no task of
\* the buy-only mode is ever at the sending of a transaction message.
C35_OnlyBuysDriveRounds ==
    /\ [][(/\ bet_calls' = bet_calls
           /\ <<active_bets, user_stats, rounds_opened, rounds_resolved>>'
                  # <<active_bets, user_stats, rounds_opened, rounds_resolved>>)
              => \E k \in Tasks : task[k].direction = "BUY" \/ task'[k].direction = "BUY"]_vars
    /\ [][\A k \in Tasks :
             (PteBuyOnlySleepDone(k) /\ task[k].direction # "BUY")
                 => UNCHANGED <<active_bets, user_stats, rounds_opened, rounds_resolved>>]_vars
    /\ [](\A k \in Tasks : task[k].pc # "pte_send")

\* C35 witness: a SELL with a valid price was fed to the handler while a
\* round with a bet was open at another price, and the round is still there.
C35_Witness ==
    /\ ret.msg = "not a buy"
    /\ ret.price # None /\ ret.price > 0
    /\ ret.token \in DOMAIN active_bets
    /\ active_bets[ret.token].price # ret.price
    /\ active_bets[ret.token].bets # EmptyDict

\* C36: the bets of an active round leave active_bets only by a resolution
\* of the round: a step after which a bet of the round of a token is no
\* longer in the round of that token is a step that resolves a round.
C36_BetsReachResolution ==
    [][\A t \in RoundTokens :
          (/\ t \in DOMAIN active_bets
           /\ \E u \in DOMAIN active_bets[t].bets :
                 t \notin DOMAIN active_bets' \/ u \notin DOMAIN active_bets'[t].bets)
              => rounds_resolved' = rounds_resolved + 1]_vars

\* C37: a hash never leaves processed_transactions, whatever happens to its
\* log afterwards, and process_swap_event is called for a hash only in the
\* step that adds the hash to the set of the token, so at most once.
C37_FailedLogNotRetried ==
    /\ [][\A t \in Tokens : processed_transactions[t] \subseteq processed_transactions'[t]]_vars
    /\ [][\A t \in Tokens, h \in Hashes :
             classified'[t][h] # classified[t][h]
                 => /\ h \notin processed_transactions[t]
                    /\ h \in processed_transactions'[t]
                    /\ classified'[t][h] = 1]_vars
    /\ [][(ret'.op = "process_transaction_event" /\ ret'.msg = "skipped")
             => UNCHANGED <<task, classified, active_bets, user_stats>>]_vars

\* C37 witness: a log whose processing ended without a round (its price was
\* not valid) was handed to process_transaction_event again and skipped.
C37_Witness ==
    /\ ret.op = "process_transaction_event" /\ ret.msg = "skipped"
    /\ ret.token \in Tokens
    /\ processed_transactions[ret.token] # {}
    /\ \A k \in Tasks : task[k].pc = "idle"
    /\ rounds_opened = 0
    /\ events >= 2

\* C38: every stats entry has 0 <= correct_bets <= total_bets and
\* daily_points >= 0.
C38_StatsBounds ==
    \A u \in DOMAIN user_stats :
        /\ 0 <= user_stats[u].correct_bets
        /\ user_stats[u].correct_bets <= user_stats[u].total_bets
        /\ user_stats[u].daily_points >= 0

\* C38 witness: a participant who won a bet has been through a daily reset:
\* no points today, one correct bet among more bets counted.
C38_Witness ==
    \E u \in DOMAIN user_stats :
        /\ today >= 1
        /\ user_stats[u].last_reset_date = today
        /\ user_stats[u].daily_points = 0
        /\ user_stats[u].correct_bets >= 1
        /\ user_stats[u].total_bets > user_stats[u].correct_bets

====
